---- MODULE Spec2Model ----
(***************************************************************************)
(* Verification model of the gpsHeading telemetry servers.                 *)
(*                                                                         *)
(* The specifications of this module share its variables:                  *)
(*   SpecDec  - the UBX frame decode loop of read_serial_data              *)
(*              (GPS_IMU_OFFSET_TCP_Server.py, same loop in                *)
(*              GPS_TCP_Server.py), fed a byte stream in arbitrary chunks. *)
(*   SpecSrv  - the threads of GPS_IMU_OFFSET_TCP_Server.py: the ingest    *)
(*              loop, the calibrator, the per-client threads, buffer_lock. *)
(*   SpecImu  - broadcast_data of IMU_TCP_Server.py.                       *)
(*   SpecUdp  - the registration and send loops of the UDP servers.        *)
(*   SpecTcpClient, SpecGpsUdp, SpecCombo - the main loops of              *)
(*              GPS_IMU_TCP_Client.py, GPS_UDP_Client.py and               *)
(*              GPS_IMU_UDP_Client.py.                                     *)
(*   SpecLoop, SpecTel, SpecShort, SpecCfg, SpecPipe, SpecCal - the        *)
(*              combined server on the inputs each group of claims needs.  *)
(* Every specification leaves the variables of the others at their idle    *)
(* values.                                                                 *)
(***************************************************************************)
EXTENDS Integers, Sequences, FiniteSets, TLC

VARIABLES
    \* --- decoder (SpecDec) ---
    layout,       \* ghost: the segments the byte stream was built from
    stream,       \* the bytes the GPS serial port will deliver
    pos,          \* number of bytes of stream already read
    buffer_gps,   \* read_serial_data's local buffer_gps
    frames        \* ghost: the (class, id, payload) triples handed to parse_ubx_message

decVars == <<layout, stream, pos, buffer_gps, frames>>

VARIABLES
    \* --- GPS_IMU_OFFSET_TCP_Server.py (SpecSrv) ---
    config,                \* config (immutable once loaded)
    peers,                 \* environment: the consumers that will connect
    feed,                  \* environment: the frames the receiver sends
    lines,                 \* environment: the sentences the attitude sensor sends
    data_buffer,           \* data_buffer
    clients,               \* clients: the list of connected sockets
    original_heading,      \* the original_* globals
    original_imu_pitch,
    original_imu_roll,
    original_imu_heading,
    imu_heading_offset,
    lockOwner,             \* buffer_lock: "none" or the thread holding it
    sock,                  \* per consumer socket: new, open, reset, hung, closed
    ipc,                   \* where the ingest thread (read_serial_data) is
    imu_data,              \* read_serial_data's local imu_data
    raw_message_imu,       \* read_serial_data's local raw_message_imu
    ubx_message,           \* the frame parse_ubx_message is working on
    json_data,             \* broadcast_data's record being published
    bcList,                \* broadcast_data's copy clients[:]
    bcIdx,                 \* position of the for loop in bcList
    bcRet,                 \* which call of broadcast_data is running
    attempted,             \* ghost: sockets sendall was called on in this call
    failed,                \* ghost: sockets whose sendall raised in this call
    writes,                \* ghost (IMU_TCP_Server.py): per socket, the sendall calls
                           \* made on it from the first one that raised on
    cpc,                   \* where the calibrator thread is
    \* --- RAW_GPS_IMU_UDP_Server.py, IMU_UDP_Server.py (SpecUdp) ---
    datagrams,             \* datagrams sent to the server's port and not yet received
    upc,                   \* where the start_udp_server thread is
    greeted,               \* ghost: per address, the "connect" datagrams it has sent
    delivered,             \* ghost: the addresses a broadcast datagram was sent to
    \* --- the outbound clients (SpecTcpClient, SpecGpsUdp, SpecCombo) ---
    client_socket,         \* GPS_IMU_TCP_Client.py: client_socket, "none" or "open"
    kpc,                   \* where the client's main thread (read_serial_data) is
    calls,                 \* ghost: calls of send_data_to_server (broadcast_data) made
    sent                   \* ghost: the calls whose record sendall delivered

srvData == <<config, data_buffer, original_heading, original_imu_pitch,
             original_imu_roll, original_imu_heading, imu_heading_offset>>
srvNet == <<clients, sock, writes>>
udpVars == <<datagrams, upc, greeted, delivered>>
cliVars == <<client_socket, kpc, calls, sent>>
\* what no thread of the TCP servers writes
srvEnv == <<peers, feed, lines, udpVars, cliVars>>
srvBc == <<json_data, bcList, bcIdx, bcRet, attempted, failed>>
srvCtl == <<lockOwner, ipc, imu_data, raw_message_imu, ubx_message, cpc>>
srvVars == <<srvData, srvNet, srvBc, srvCtl, srvEnv>>

vars == <<decVars, srvVars>>

(***************************************************************************)
(* Bounds                                                                  *)
(***************************************************************************)
MaxSegs == 3      \* segments per generated byte stream
MaxChunk == 3     \* largest number of bytes one serial read returns
NumClients == 2   \* consumers that may connect

(***************************************************************************)
(* Helpers on sequences                                                    *)
(***************************************************************************)
\* Python slice s[a:b] (0-based, b exclusive, clipped to the sequence).
Slice(s, a, b) ==
    LET lo == IF a > Len(s) THEN Len(s) ELSE a
        hi == IF b > Len(s) THEN Len(s) ELSE b
    IN  IF hi <= lo THEN <<>> ELSE SubSeq(s, lo + 1, hi)

RECURSIVE Concat(_)
Concat(ss) == IF ss = <<>> THEN <<>> ELSE Head(ss) \o Concat(Tail(ss))

\* bytes.startswith
StartsWith(s, p) == Len(s) >= Len(p) /\ SubSeq(s, 1, Len(p)) = p

\* int.from_bytes(s, byteorder='little') (unsigned; 0 for the empty slice)
RECURSIVE FromBytesLE(_)
FromBytesLE(s) == IF s = <<>> THEN 0 ELSE Head(s) + 256 * FromBytesLE(Tail(s))

(***************************************************************************)
(* The UBX frame decoder: read_serial_data, lines 286-303                  *)
(***************************************************************************)
UBX_HEADER == <<181, 98>>     \* b'\xb5\x62'

\* One iteration of `while len(buffer_gps) >= 6:`.
\*   exit  - the loop condition is false
\*   frame - a complete frame is cut off the front and handed on
\*   break - header present, frame incomplete: wait for more input
\*   shift - no header at the front: drop one byte
\* Mutant: an incomplete frame is dropped byte by byte instead of kept.
DecodeStepDropsPartial(buf) ==
    IF Len(buf) < 6 THEN [kind |-> "exit", buf |-> buf, msg |-> <<>>]
    ELSE IF StartsWith(buf, UBX_HEADER)
         THEN LET length == FromBytesLE(Slice(buf, 4, 6))
                  total_length == 6 + length + 2
              IN  IF Len(buf) >= total_length
                  THEN [kind |-> "frame", buf |-> Slice(buf, total_length, Len(buf)),
                        msg |-> Slice(buf, 0, total_length)]
                  ELSE [kind |-> "shift", buf |-> Tail(buf), msg |-> <<>>]
         ELSE [kind |-> "shift", buf |-> Tail(buf), msg |-> <<>>]

\* Mutant: a header mismatch skips the length of the marker, two bytes.
DecodeStepShiftsTwo(buf) ==
    IF Len(buf) < 6 THEN [kind |-> "exit", buf |-> buf, msg |-> <<>>]
    ELSE IF StartsWith(buf, UBX_HEADER)
         THEN LET length == FromBytesLE(Slice(buf, 4, 6))
                  total_length == 6 + length + 2
              IN  IF Len(buf) >= total_length
                  THEN [kind |-> "frame", buf |-> Slice(buf, total_length, Len(buf)),
                        msg |-> Slice(buf, 0, total_length)]
                  ELSE [kind |-> "break", buf |-> buf, msg |-> <<>>]
         ELSE [kind |-> "shift", buf |-> Slice(buf, 2, Len(buf)), msg |-> <<>>]

\* Mutant: a buffer that does not start with the marker is left as it is
\* and the loop goes on.
DecodeStepShiftsNone(buf) ==
    IF Len(buf) < 6 THEN [kind |-> "exit", buf |-> buf, msg |-> <<>>]
    ELSE IF StartsWith(buf, UBX_HEADER)
         THEN LET length == FromBytesLE(Slice(buf, 4, 6))
                  total_length == 6 + length + 2
              IN  IF Len(buf) >= total_length
                  THEN [kind |-> "frame", buf |-> Slice(buf, total_length, Len(buf)),
                        msg |-> Slice(buf, 0, total_length)]
                  ELSE [kind |-> "break", buf |-> buf, msg |-> <<>>]
         ELSE [kind |-> "shift", buf |-> buf, msg |-> <<>>]

\* Mutant: a buffer that does not start with the marker ends the loop.
DecodeStepBreaksOnMismatch(buf) ==
    IF Len(buf) < 6 THEN [kind |-> "exit", buf |-> buf, msg |-> <<>>]
    ELSE IF StartsWith(buf, UBX_HEADER)
         THEN LET length == FromBytesLE(Slice(buf, 4, 6))
                  total_length == 6 + length + 2
              IN  IF Len(buf) >= total_length
                  THEN [kind |-> "frame", buf |-> Slice(buf, total_length, Len(buf)),
                        msg |-> Slice(buf, 0, total_length)]
                  ELSE [kind |-> "break", buf |-> buf, msg |-> <<>>]
         ELSE [kind |-> "break", buf |-> buf, msg |-> <<>>]

\* Mutant: the two trailer bytes are left in the buffer.
DecodeStepKeepsTrailer(buf) ==
    IF Len(buf) < 6 THEN [kind |-> "exit", buf |-> buf, msg |-> <<>>]
    ELSE IF StartsWith(buf, UBX_HEADER)
         THEN LET length == FromBytesLE(Slice(buf, 4, 6))
                  total_length == 6 + length + 2
              IN  IF Len(buf) >= total_length
                  THEN [kind |-> "frame", buf |-> Slice(buf, total_length - 2, Len(buf)),
                        msg |-> Slice(buf, 0, total_length)]
                  ELSE [kind |-> "break", buf |-> buf, msg |-> <<>>]
         ELSE [kind |-> "shift", buf |-> Tail(buf), msg |-> <<>>]

DecodeStep(buf) ==
    IF Len(buf) < 6 THEN [kind |-> "exit", buf |-> buf, msg |-> <<>>]
    ELSE IF StartsWith(buf, UBX_HEADER)
         THEN LET length == FromBytesLE(Slice(buf, 4, 6))
                  total_length == 6 + length + 2
              IN  IF Len(buf) >= total_length
                  THEN [kind |-> "frame", buf |-> Slice(buf, total_length, Len(buf)),
                        msg |-> Slice(buf, 0, total_length)]
                  ELSE [kind |-> "break", buf |-> buf, msg |-> <<>>]
         ELSE [kind |-> "shift", buf |-> Tail(buf), msg |-> <<>>]

\* parse_ubx_message's view of a frame: class, id, payload = ubx_message[6:-2].
FrameOf(message) ==
    <<message[3], message[4], Slice(message, 6, Len(message) - 2)>>

\* The whole inner while loop; out collects the frames passed to parse_ubx_message.
RECURSIVE DecodeLoop(_, _)
DecodeLoop(buf, out) ==
    LET r == DecodeStep(buf)
    IN  CASE r.kind = "frame" -> DecodeLoop(r.buf, Append(out, FrameOf(r.msg)))
          [] r.kind = "shift" -> DecodeLoop(r.buf, out)
          [] OTHER            -> [buf |-> buf, out |-> out]

(***************************************************************************)
(* Byte streams the serial port can deliver                                *)
(***************************************************************************)
\* A well-formed frame: sync, class, id, 16-bit little-endian length,
\* payload, two trailer bytes (never verified by the decoder).
MkFrame(cls, id, payload, ck) ==
    UBX_HEADER \o <<cls, id, Len(payload) % 256, Len(payload) \div 256>> \o payload \o ck

ValidFrames ==
    { MkFrame(1, 7, <<>>, <<8, 25>>),
      MkFrame(1, 60, <<9>>, <<181, 0>>),
      MkFrame(5, 1, <<181, 98>>, <<0, 0>>) }

\* A frame whose sync marker has one corrupted byte; the rest is kept.
CorruptFrames ==
    { [f EXCEPT ![1] = 0] : f \in ValidFrames } \cup
    { [f EXCEPT ![2] = 181] : f \in ValidFrames }

\* Line noise and fragments.
Junk == { <<181>>, <<0>>, <<181, 98, 1, 7>> }

Segment ==
    [kind : {"frame"}, bytes : ValidFrames] \cup
    [kind : {"corrupt"}, bytes : CorruptFrames] \cup
    [kind : {"junk"}, bytes : Junk]

Layouts == UNION { [1..n -> Segment] : n \in 0..MaxSegs }

BytesOf(lay) == Concat([i \in 1..Len(lay) |-> lay[i].bytes])

(***************************************************************************)
(* Python values held in data_buffer and the original_* globals            *)
(*                                                                         *)
(* A number is the exact decimal w + m / 10^e with 0 <= m < 10^e (w the   *)
(* floor, m the fraction), kept normalised (m carries no trailing zero     *)
(* while e > 0); binary floating-point error is not modelled.  kind says   *)
(* what Python object carries it:                                          *)
(*   "none"  None                                                          *)
(*   "int"   an int                                                        *)
(*   "float" a float                                                       *)
(*   "str"   the string f"{x:.pf}", p decimal places                       *)
(*   "txt"   any other string (s)                                          *)
(***************************************************************************)
RECURSIVE Pow10(_)
Pow10(n) == IF n = 0 THEN 1 ELSE 10 * Pow10(n - 1)

RECURSIVE NormM(_, _)
NormM(m, e) == IF e > 0 /\ m % 10 = 0 THEN NormM(m \div 10, e - 1) ELSE m
RECURSIVE NormE(_, _)
NormE(m, e) == IF e > 0 /\ m % 10 = 0 THEN NormE(m \div 10, e - 1) ELSE e

\* The number w + m / 10^e carried by an object of the given kind
Num(kind, w, m, e, p) ==
    [kind |-> kind, w |-> w, m |-> NormM(m, e), e |-> NormE(m, e), p |-> p, s |-> ""]

None == [kind |-> "none", w |-> 0, m |-> 0, e |-> 0, p |-> 0, s |-> ""]
PyInt(i) == Num("int", i, 0, 0, 0)
\* the float mant / 10^e, and the string that prints mant / 10^e with p places
PyFloat(mant, e) == Num("float", mant \div Pow10(e), mant % Pow10(e), e, 0)
PyNumStr(mant, e, p) == Num("str", mant \div Pow10(e), mant % Pow10(e), e, p)
PyTxt(s) == [kind |-> "txt", w |-> 0, m |-> 0, e |-> 0, p |-> 0, s |-> s]

IsNone(v) == v.kind = "none"

Max(a, b) == IF a >= b THEN a ELSE b

\* a + b, -a, a - b, a % 360.0 on floats
FAdd(a, b) ==
    LET e == Max(a.e, b.e)
        sum == a.m * Pow10(e - a.e) + b.m * Pow10(e - b.e)
    IN  Num("float", a.w + b.w + (sum \div Pow10(e)), sum % Pow10(e), e, 0)
FNeg(a) ==
    IF a.m = 0 THEN Num("float", -a.w, 0, 0, 0)
    ELSE Num("float", -a.w - 1, Pow10(a.e) - a.m, a.e, 0)
FSub(a, b) == FAdd(a, FNeg(b))
FMod360(a) ==
    \* whole degrees reduced mod 360, the fraction kept (the result has the
    \* sign of 360.0: Python's % on floats)
    Num("float", a.w % 360, a.m, a.e, 0)

\* a > b on numbers
FGreater(a, b) ==
    LET e == Max(a.e, b.e)
    IN  \/ a.w > b.w
        \/ a.w = b.w /\ a.m * Pow10(e - a.e) > b.m * Pow10(e - b.e)

\* v rounded to k decimal places, ties to even (a value with at most k
\* decimals is unchanged): the fraction in units of 10^-k, which is 10^k when
\* the rounding carries into the whole part.
RoundM(v, k) ==
    IF v.e <= k THEN v.m * Pow10(k - v.e)
    ELSE LET q == Pow10(v.e - k)
             lo == v.m \div q
             r == v.m % q
             odd == IF k = 0 THEN v.w % 2 = 1 ELSE lo % 2 = 1
         IN  IF 2 * r < q THEN lo
             ELSE IF 2 * r > q THEN lo + 1
             ELSE IF odd THEN lo + 1 ELSE lo

\* f"{float(v):.kf}" for an int, a float or a numeric string
Format(v, k) ==
    Num("str", v.w + (RoundM(v, k) \div Pow10(k)), RoundM(v, k) % Pow10(k), k, k)

\* round(v, k)
PyRound(v, k) ==
    Num("float", v.w + (RoundM(v, k) \div Pow10(k)), RoundM(v, k) % Pow10(k), k, 0)

(***************************************************************************)
(* UBX payload interpretation: lines 326-354                               *)
(***************************************************************************)
\* int.from_bytes(s, byteorder='little', signed=True)
FromBytesSignedLE(s) ==
    IF s = <<>> THEN 0
    ELSE LET top == s[Len(s)]
             low == FromBytesLE(SubSeq(s, 1, Len(s) - 1))
             w == IF top >= 128 THEN top - 256 ELSE top
         IN  low + w * (2 ^ (8 * (Len(s) - 1)))

FLAGS_CARR_SOLN_NONE == 0
FLAGS_CARR_SOLN_FLOAT == 8
FLAGS_CARR_SOLN_FIXED == 16

\* flags & 0b00011000
CarrSoln(flags) == ((flags \div 8) % 4) * 8

\* parse_ubx_navpvt: the four fields written to data_buffer
\* Mutant: the altitude is left as it was.
NavPvtUpdateKeepsAltitude(data, payload) ==
    [data EXCEPT
        !["Timestamp"] = PyInt(FromBytesLE(Slice(payload, 0, 4))),
        !["Latitude"] = PyFloat(FromBytesSignedLE(Slice(payload, 28, 32)), 7),
        !["Longitude"] = PyFloat(FromBytesSignedLE(Slice(payload, 24, 28)), 7)]

NavPvtUpdate(data, payload) ==
    [data EXCEPT
        !["Timestamp"] = PyInt(FromBytesLE(Slice(payload, 0, 4))),
        !["Latitude"] = PyFloat(FromBytesSignedLE(Slice(payload, 28, 32)), 7),
        !["Longitude"] = PyFloat(FromBytesSignedLE(Slice(payload, 24, 28)), 7),
        !["Altitude"] = PyFloat(FromBytesSignedLE(Slice(payload, 32, 36)), 3)]

\* parse_ubx_navrelposned: the local rtk_fix_quality (computed, then unused)
RtkFixQuality(payload) ==
    LET carr_soln_status == CarrSoln(FromBytesLE(Slice(payload, 36, 40)))
    IN  IF carr_soln_status = FLAGS_CARR_SOLN_NONE THEN "None"
        ELSE IF carr_soln_status = FLAGS_CARR_SOLN_FLOAT THEN "Float"
        ELSE IF carr_soln_status = FLAGS_CARR_SOLN_FIXED THEN "Fixed"
        ELSE "Unknown"

\* parse_ubx_navrelposned: data_buffer after the frame (line 354 stores "N/A")
NavRelUpdate(data, payload) ==
    [data EXCEPT
        !["Antenna_Distance"] = PyFloat(FromBytesLE(Slice(payload, 20, 24)), 2),
        !["RTK_Fix_Quality"] = PyTxt("N/A")]

\* parse_ubx_navrelposned: the new original_heading
NavRelHeading(payload) == PyFloat(FromBytesSignedLE(Slice(payload, 24, 28)), 5)

(***************************************************************************)
(* The attitude sentence decoder: parse_message, lines 164-222             *)
(* A sentence is a sequence of one-character strings.                      *)
(***************************************************************************)
\* str.find(ch, start): 0-based index of the first ch at or after start, or -1
RECURSIVE Find(_, _, _)
Find(msg, ch, start) ==
    IF start >= Len(msg) THEN -1
    ELSE IF msg[start + 1] = ch THEN start
    ELSE Find(msg, ch, start + 1)

\* ch in msg
Contains(msg, ch) == Find(msg, ch, 0) # -1

DigitChars == <<"0", "1", "2", "3", "4", "5", "6", "7", "8", "9">>
IsDigit(c) == \E i \in 1..10 : DigitChars[i] = c
DigitVal(c) == (CHOOSE i \in 1..10 : DigitChars[i] = c) - 1

RECURSIVE DigitsVal(_)
DigitsVal(ds) ==
    IF ds = <<>> THEN 0
    ELSE DigitsVal(SubSeq(ds, 1, Len(ds) - 1)) * 10 + DigitVal(ds[Len(ds)])

RECURSIVE StripSpaces(_)
StripSpaces(t) ==
    IF t # <<>> /\ Head(t) = " " THEN StripSpaces(Tail(t))
    ELSE IF t # <<>> /\ t[Len(t)] = " " THEN StripSpaces(SubSeq(t, 1, Len(t) - 1))
    ELSE t

\* float(text) for plain decimal literals: optional sign, digits with at most
\* one point; anything else raises ValueError (ok = FALSE).
ParseFloat(text) ==
    LET t == StripSpaces(text)
        signed == t # <<>> /\ Head(t) \in {"-", "+"}
        body == IF signed THEN Tail(t) ELSE t
        dot == Find(body, ".", 0)
        ip == IF dot = -1 THEN body ELSE Slice(body, 0, dot)
        fp == IF dot = -1 THEN <<>> ELSE Slice(body, dot + 1, Len(body))
        digits == ip \o fp
        ok == /\ digits # <<>>
              /\ \A i \in 1..Len(digits) : IsDigit(digits[i])
        mag == Num("float", DigitsVal(ip), DigitsVal(fp), Len(fp), 0)
    IN  IF ok
        THEN [ok |-> TRUE, v |-> IF signed /\ Head(t) = "-" THEN FNeg(mag) ELSE mag]
        ELSE [ok |-> FALSE, v |-> None]

\* The text after marker `from`, up to the first marker `to` at or after it;
\* present = FALSE when `from` is missing or `to` is not found (lines 183-187).
Between(msg, from, to) ==
    LET a == Find(msg, from, 0)
        b == IF a = -1 THEN -1 ELSE Find(msg, to, a)
    IN  IF a # -1 /\ b # -1
        THEN [present |-> TRUE, text |-> Slice(msg, a + 1, b)]
        ELSE [present |-> FALSE, text |-> <<>>]

\* Lines 178-180: strip '$' and everything from the first '*'.
StripFraming(message) ==
    IF message # <<>> /\ Head(message) = "$" /\ Contains(message, "*")
    THEN Slice(message, 1, Find(message, "*", 0))
    ELSE message

\* A field's value after one sentence: the parsed number, or the old value
\* when the field is not delimited or its text is not a number.
FieldAfter(old, fld) ==
    IF fld.present /\ ParseFloat(fld.text).ok THEN ParseFloat(fld.text).v ELSE old

\* parse_message: the new original_imu_* globals and the returned dict
\* (Heading, Pitch and Roll of the dict are never assigned: they stay None).
ParseMessage(message, heading, pitch, roll) ==
    LET msg == StripFraming(message)
        t == Find(msg, "T", 0)
        temp == IF t = -1 THEN [ok |-> FALSE, v |-> None]
                ELSE ParseFloat(Slice(msg, t + 1, Len(msg)))
    IN  [original_imu_heading |-> FieldAfter(heading, Between(msg, "C", "P")),
         original_imu_pitch |-> FieldAfter(pitch, Between(msg, "P", "R")),
         original_imu_roll |-> FieldAfter(roll, Between(msg, "R", "T")),
         data |-> [Heading |-> None, Pitch |-> None, Roll |-> None,
                   Temperature |-> IF temp.ok THEN temp.v ELSE None]]

(***************************************************************************)
(* The correction pipeline: apply_offset_and_sign, lines 63-106            *)
(***************************************************************************)
DataFields ==
    {"Timestamp", "Latitude", "Longitude", "Altitude", "Heading", "Antenna_Distance",
     "RTK_Fix_Quality", "IMU_Heading", "IMU_Pitch", "IMU_Roll", "IMU_Temperature"}

\* data_buffer as created at lines 37-49
EmptyData == [f \in DataFields |-> None]

\* config as loaded at lines 16-34 (the defaults of lines 21-26)
DefaultConfig ==
    [heading_offset |-> PyInt(0), negate_roll |-> FALSE,
     negate_pitch |-> FALSE, negate_yaw |-> FALSE]

fields_to_round_seven ==
    {"Latitude", "Longitude", "Altitude", "Heading", "Antenna_Distance",
     "IMU_Heading", "IMU_Pitch", "IMU_Roll", "IMU_Temperature"}

fields_to_round_one ==
    {"Altitude", "Heading", "Antenna_Distance",
     "IMU_Heading", "IMU_Pitch", "IMU_Roll", "IMU_Temperature"}

\* The two formatting loops, lines 91-96 and 101-106: every listed field that
\* is not None and converts to float is replaced by its formatted string.
FormatFields(data, fields, places) ==
    [f \in DOMAIN data |->
        IF f \in fields /\ data[f].kind \in {"int", "float", "str"}
        THEN Format(data[f], places)
        ELSE data[f]]

\* -x if the flag is set and x is not None else x (lines 77-79)
Negated(flag, x) == IF flag /\ ~IsNone(x) THEN FNeg(x) ELSE x

\* Mutant: the heading offset is added to the Heading already in data.
ApplyOffsetAndSignOnPublished(data, cfg, heading, imu_pitch, imu_roll, imu_heading, offset) ==
    LET d1 == [data EXCEPT
                !["Heading"] =
                    IF ~IsNone(heading)
                    THEN FMod360(FAdd(IF IsNone(data["Heading"]) THEN heading
                                      ELSE data["Heading"], cfg.heading_offset))
                    ELSE None,
                !["IMU_Roll"] = Negated(cfg.negate_roll, imu_roll),
                !["IMU_Pitch"] = Negated(cfg.negate_pitch, imu_pitch),
                !["IMU_Heading"] =
                    IF ~IsNone(imu_heading)
                    THEN Format(FMod360(FAdd(imu_heading, offset)), 1)
                    ELSE None]
        d2 == FormatFields(d1, fields_to_round_seven, 7)
    IN  FormatFields(d2, fields_to_round_one, 1)

\* apply_offset_and_sign(data): data after the call.  heading, imu_pitch,
\* imu_roll, imu_heading are the original_* globals, offset is
\* imu_heading_offset.
ApplyOffsetAndSign(data, cfg, heading, imu_pitch, imu_roll, imu_heading, offset) ==
    LET d1 == [data EXCEPT
                !["Heading"] =
                    IF ~IsNone(heading)
                    THEN FMod360(FAdd(heading, cfg.heading_offset))
                    ELSE None,
                !["IMU_Roll"] = Negated(cfg.negate_roll, imu_roll),
                !["IMU_Pitch"] = Negated(cfg.negate_pitch, imu_pitch),
                \* line 79 is overwritten by lines 81-85
                !["IMU_Heading"] =
                    IF ~IsNone(imu_heading)
                    THEN Format(FMod360(FAdd(imu_heading, offset)), 1)
                    ELSE None]
        d2 == FormatFields(d1, fields_to_round_seven, 7)
    IN  FormatFields(d2, fields_to_round_one, 1)

\* Mutant: the None fields are serialized too.
JsonOfKeepsNull(data) == data

\* {k: v for k, v in data_buffer.items() if v is not None} (line 117)
JsonOf(data) == [f \in {g \in DOMAIN data : ~IsNone(data[g])} |-> data[f]]

(***************************************************************************)
(* The heading calibrator: adjust_imu_heading_offset, lines 230-254        *)
(***************************************************************************)
FAbsGreaterTenth(v) ==
    \* abs(v) > 0.1
    FGreater(v, PyFloat(1, 1)) \/ FGreater(FNeg(v), PyFloat(1, 1))

\* Mutant: the difference is added to the previous offset.
CalibratedOffsetAccumulates(offset, heading, imu_heading) ==
    IF ~IsNone(imu_heading) /\ ~IsNone(heading)
    THEN LET gps_heading == FMod360(heading)
             imu == FMod360(imu_heading)
             d0 == FMod360(FSub(gps_heading, imu))
             d1 == IF FGreater(d0, PyFloat(180, 0)) THEN FSub(d0, PyFloat(360, 0)) ELSE d0
             difference == PyRound(d1, 7)
         IN  IF FAbsGreaterTenth(difference) THEN FAdd(offset, difference) ELSE offset
    ELSE offset

\* Mutant: a difference above 180 is stored as it is.
CalibratedOffsetNoFold(offset, heading, imu_heading) ==
    IF ~IsNone(imu_heading) /\ ~IsNone(heading)
    THEN LET gps_heading == FMod360(heading)
             imu == FMod360(imu_heading)
             d0 == FMod360(FSub(gps_heading, imu))
             difference == PyRound(d0, 7)
         IN  IF FAbsGreaterTenth(difference) THEN difference ELSE offset
    ELSE offset

\* Mutant: a missing heading counts as 0.0.
CalibratedOffsetTreatsMissingAsZero(offset, heading, imu_heading) ==
    LET gps_heading == FMod360(IF IsNone(heading) THEN PyFloat(0, 0) ELSE heading)
        imu == FMod360(IF IsNone(imu_heading) THEN PyFloat(0, 0) ELSE imu_heading)
        d0 == FMod360(FSub(gps_heading, imu))
        d1 == IF FGreater(d0, PyFloat(180, 0)) THEN FSub(d0, PyFloat(360, 0)) ELSE d0
        difference == PyRound(d1, 7)
    IN  IF FAbsGreaterTenth(difference) THEN difference ELSE offset

\* imu_heading_offset after one tick
CalibratedOffset(offset, heading, imu_heading) ==
    IF ~IsNone(imu_heading) /\ ~IsNone(heading)
    THEN LET gps_heading == FMod360(heading)
             imu == FMod360(imu_heading)
             d0 == FMod360(FSub(gps_heading, imu))
             d1 == IF FGreater(d0, PyFloat(180, 0)) THEN FSub(d0, PyFloat(360, 0)) ELSE d0
             difference == PyRound(d1, 7)
         IN  IF FAbsGreaterTenth(difference) THEN difference ELSE offset
    ELSE offset

(***************************************************************************)
(* Idle values: what a specification leaves the other parts at             *)
(***************************************************************************)
Clients == 1..NumClients

DecIdle ==
    /\ layout = <<>>
    /\ stream = <<>>
    /\ pos = 0
    /\ buffer_gps = <<>>
    /\ frames = <<>>

\* No UDP server is running.
UdpIdle ==
    /\ datagrams = {}
    /\ upc = "off"
    /\ greeted = [c \in Clients |-> 0]
    /\ delivered = {}

\* No outbound client is running.
CliIdle ==
    /\ client_socket = "none"
    /\ kpc = "off"
    /\ calls = 0
    /\ sent = <<>>

\* The module-level state of the server as created at lines 16-61, no thread
\* started.
SrvGlobals ==
    /\ UdpIdle
    /\ CliIdle
    /\ data_buffer = EmptyData
    /\ clients = <<>>
    /\ original_heading = None
    /\ original_imu_pitch = None
    /\ original_imu_roll = None
    /\ original_imu_heading = None
    /\ imu_heading_offset = PyFloat(0, 0)
    /\ lockOwner = "none"
    /\ sock = [c \in Clients |-> "new"]
    /\ writes = [c \in Clients |-> 0]
    /\ imu_data = None
    /\ raw_message_imu = <<>>
    /\ ubx_message = <<>>
    /\ json_data = <<>>
    /\ bcList = <<>>
    /\ bcIdx = 1
    /\ bcRet = "top"
    /\ attempted = {}
    /\ failed = {}

SrvIdle ==
    /\ SrvGlobals
    /\ peers = {}
    /\ feed = {}
    /\ lines = {}
    /\ config = DefaultConfig
    /\ ipc = "idle"
    /\ cpc = "idle"

(***************************************************************************)
(* SpecDec                                                                 *)
(***************************************************************************)
InitDec ==
    /\ SrvIdle
    /\ layout \in Layouts
    /\ stream = BytesOf(layout)
    /\ pos = 0
    /\ buffer_gps = <<>>        \* line 268
    /\ frames = <<>>

\* ser_gps.read(...) returns n >= 1 bytes: append and run the decode loop.
ReadChunk(n) ==
    /\ pos + n <= Len(stream)
    /\ LET raw_data_gps == SubSeq(stream, pos + 1, pos + n)
           r == DecodeLoop(buffer_gps \o raw_data_gps, frames)
       IN  /\ buffer_gps' = r.buf
           /\ frames' = r.out
    /\ pos' = pos + n
    /\ UNCHANGED <<layout, stream>>
    /\ UNCHANGED srvVars

\* ser_gps.read(...) times out and returns b'': `if raw_data_gps:` skips the loop.
ReadTimeout ==
    /\ pos <= Len(stream)
    /\ UNCHANGED vars

NextDec ==
    \/ \E n \in 1..MaxChunk : ReadChunk(n)
    \/ ReadTimeout

SpecDec == InitDec /\ [][NextDec]_vars

(***************************************************************************)
(* SpecLoop: the decode loop of read_serial_data, one iteration per step   *)
(***************************************************************************)
InitLoop ==
    /\ SrvGlobals
    /\ peers = {}
    /\ feed = {}
    /\ lines = {}
    /\ config = DefaultConfig
    /\ cpc = "idle"
    /\ ipc = "gps_read"         \* line 285
    /\ layout \in Layouts
    /\ stream = BytesOf(layout)
    /\ pos = 0
    /\ buffer_gps = <<>>        \* line 268
    /\ frames = <<>>

\* Lines 285-288: ser_gps.read(...) returns n >= 1 bytes, which are appended.
LoopRead(n) ==
    /\ ipc = "gps_read"
    /\ pos + n <= Len(stream)
    /\ buffer_gps' = buffer_gps \o SubSeq(stream, pos + 1, pos + n)
    /\ pos' = pos + n
    /\ ipc' = "gps_decode"
    /\ UNCHANGED <<layout, stream, frames>>
    /\ UNCHANGED <<srvData, srvNet, srvBc, srvEnv, lockOwner, imu_data, raw_message_imu, ubx_message, cpc>>

\* Lines 289-303: the loop condition and one iteration of the loop body.
LoopIterate ==
    /\ ipc = "gps_decode"
    /\ LET r == DecodeStep(buffer_gps)
       IN  /\ buffer_gps' = r.buf
           /\ frames' = IF r.kind = "frame" THEN Append(frames, FrameOf(r.msg))
                        ELSE frames
           /\ ipc' = IF r.kind \in {"frame", "shift"} THEN "gps_decode" ELSE "gps_read"
    /\ UNCHANGED <<layout, stream, pos>>
    /\ UNCHANGED <<srvData, srvNet, srvBc, srvEnv, lockOwner, imu_data, raw_message_imu, ubx_message, cpc>>

NextLoop ==
    \/ \E n \in 1..MaxChunk : LoopRead(n)
    \/ LoopIterate

SpecLoop == InitLoop /\ [][NextLoop]_vars

\* The thread keeps running: an iteration of the loop that can be taken is
\* taken.
SpecLoopFair == InitLoop /\ [][NextLoop]_vars /\ WF_vars(LoopIterate)

(***************************************************************************)
(* Inputs of the combined server                                           *)
(***************************************************************************)
RECURSIVE ToBytesLE(_, _)
ToBytesLE(v, n) == IF n = 0 THEN <<>> ELSE <<v % 256>> \o ToBytesLE(v \div 256, n - 1)

Zeros(n) == [i \in 1..n |-> 0]

Tags == {1, 2}

\* NAV-PVT payload number k: iTOW k, lon and lat k * 1e-7 deg, height k.34 m
PvtPayload(k) ==
    ToBytesLE(k, 4) \o Zeros(20) \o ToBytesLE(k, 4) \o ToBytesLE(k, 4)
        \o ToBytesLE(1000 * k + 340, 4)

\* NAV-RELPOSNED payload number k: baseline k.34 m, heading k.34 deg, flags 8k
RelPayload(k) ==
    Zeros(20) \o ToBytesLE(100 * k + 34, 4) \o ToBytesLE(100000 * k + 34000, 4)
        \o Zeros(8) \o ToBytesLE(8 * k, 4)

\* The complete frames the decode loop hands to parse_ubx_message.
SrvFrames ==
    { MkFrame(1, 7, PvtPayload(k), <<0, 0>>) : k \in Tags } \cup
    { MkFrame(1, 60, RelPayload(k), <<0, 0>>) : k \in Tags } \cup
    { MkFrame(5, 1, <<>>, <<0, 0>>) }

\* The lines ser_imu.readline() returns.
SrvSentences ==
    { <<"$", "C", "1", "0", ".", "5", "P", "1", ".", "5", "R", "-", "2", ".", "5", "T", "2", "0", ".", "0", "*", "3", "F">>,
      <<"$", "C", "1", "2", ".", "0", "P", "x", "1", "R", "7", "*", "0", "0">>,
      <<"R", "7">> }

(***************************************************************************)
(* SpecSrv: the threads of GPS_IMU_OFFSET_TCP_Server.py                    *)
(***************************************************************************)
InitSrv ==
    /\ DecIdle
    /\ SrvGlobals
    /\ peers = Clients
    /\ feed = { MkFrame(1, 7, PvtPayload(1), <<0, 0>>),
                MkFrame(1, 60, RelPayload(1), <<0, 0>>),
                MkFrame(5, 1, <<>>, <<0, 0>>) }
    /\ lines = { <<"$", "C", "1", "0", ".", "5", "P", "1", ".", "5", "R", "-", "2", ".", "5", "T", "2", "0", ".", "0", "*", "3", "F">> }
    /\ config = DefaultConfig
    /\ ipc = "top"          \* read_serial_data() in the main thread, line 365
    /\ cpc = "sleep"        \* offset_thread, line 362

\* Mutant: the list is left as it was.
RemoveKeepsAll(list, x) == list

\* list.remove(x)
Remove(list, x) == SelectSeq(list, LAMBDA y : y # x)

Range(list) == { list[i] : i \in 1..Len(list) }

----
\* Lines 272-278: a line is waiting; parse_message stores the original_imu_*
\* globals (no lock is held) and returns a non-empty dict.
IngestImu(message) ==
    /\ ipc = "top"
    /\ LET r == ParseMessage(message, original_imu_heading, original_imu_pitch,
                             original_imu_roll)
       IN  /\ original_imu_heading' = r.original_imu_heading
           /\ original_imu_pitch' = r.original_imu_pitch
           /\ original_imu_roll' = r.original_imu_roll
           /\ imu_data' = r.data
    /\ raw_message_imu' = message
    /\ ipc' = "imu_acquire"
    /\ UNCHANGED <<config, data_buffer, original_heading, imu_heading_offset>>
    /\ UNCHANGED <<srvNet, srvBc, lockOwner, ubx_message, cpc, decVars, srvEnv>>

\* Line 272: ser_imu.in_waiting is 0.
IngestNoImu ==
    /\ ipc = "top"
    /\ ipc' = "gps"
    /\ UNCHANGED <<srvData, srvNet, srvBc, lockOwner, imu_data, raw_message_imu, ubx_message, cpc, decVars, srvEnv>>

\* Line 279: with buffer_lock
ImuAcquire ==
    /\ ipc = "imu_acquire"
    /\ lockOwner = "none"
    /\ lockOwner' = "ingest"
    /\ ipc' = "imu_store"
    /\ UNCHANGED <<srvData, srvNet, srvBc, imu_data, raw_message_imu, ubx_message, cpc, decVars, srvEnv>>

\* Mutant: storing the attitude fields also resets the calibration offset.
ImuStoreResetsOffset ==
    /\ ipc = "imu_store"
    /\ data_buffer' = [data_buffer EXCEPT
            !["IMU_Heading"] = imu_data.Heading,
            !["IMU_Pitch"] = imu_data.Pitch,
            !["IMU_Roll"] = imu_data.Roll,
            !["IMU_Temperature"] = imu_data.Temperature]
    /\ imu_data' = None
    /\ raw_message_imu' = <<>>
    /\ lockOwner' = "none"
    /\ ipc' = "gps"
    /\ imu_heading_offset' = PyFloat(0, 0)
    /\ UNCHANGED <<config, original_heading, original_imu_pitch, original_imu_roll,
                   original_imu_heading>>
    /\ UNCHANGED <<srvNet, srvBc, ubx_message, cpc, decVars, srvEnv>>

\* Lines 280-283, and the lock released.
ImuStore ==
    /\ ipc = "imu_store"
    /\ data_buffer' = [data_buffer EXCEPT
            !["IMU_Heading"] = imu_data.Heading,
            !["IMU_Pitch"] = imu_data.Pitch,
            !["IMU_Roll"] = imu_data.Roll,
            !["IMU_Temperature"] = imu_data.Temperature]
    /\ imu_data' = None      \* not read again before they are reassigned
    /\ raw_message_imu' = <<>>
    /\ lockOwner' = "none"
    /\ ipc' = "gps"
    /\ UNCHANGED <<config, original_heading, original_imu_pitch, original_imu_roll,
                   original_imu_heading, imu_heading_offset>>
    /\ UNCHANGED <<srvNet, srvBc, ubx_message, cpc, decVars, srvEnv>>

\* Lines 286-299 and 314-321: the decode loop cuts a complete frame off the
\* buffer and parse_ubx_message dispatches on its class and id.
GpsFrame(message) ==
    /\ ipc = "gps"
    /\ ubx_message' = message
    /\ LET msg_class == message[3]
           msg_id == message[4]
       IN  IF msg_class = 1 /\ msg_id = 7 THEN ipc' = "pvt_acquire" /\ bcRet' = bcRet
           ELSE IF msg_class = 1 /\ msg_id = 60 THEN ipc' = "rel_acquire" /\ bcRet' = bcRet
           ELSE ipc' = "bc_acquire" /\ bcRet' = "loop"     \* line 324
    /\ UNCHANGED <<srvData, srvNet, json_data, bcList, bcIdx, attempted, failed>>
    /\ UNCHANGED <<lockOwner, imu_data, raw_message_imu, cpc, decVars, srvEnv>>

\* Lines 286-303 leave no complete frame; line 306 calls broadcast_data.
GpsNoFrame ==
    /\ ipc = "gps"
    /\ ipc' = "bc_acquire"
    /\ bcRet' = "top"
    /\ UNCHANGED <<srvData, srvNet, json_data, bcList, bcIdx, attempted, failed>>
    /\ UNCHANGED <<lockOwner, imu_data, raw_message_imu, ubx_message, cpc, decVars, srvEnv>>

\* Line 328 / line 337: with buffer_lock
FrameAcquire ==
    /\ ipc \in {"pvt_acquire", "rel_acquire"}
    /\ lockOwner = "none"
    /\ lockOwner' = "ingest"
    /\ ipc' = IF ipc = "pvt_acquire" THEN "pvt_store" ELSE "rel_store"
    /\ UNCHANGED <<srvData, srvNet, srvBc, imu_data, raw_message_imu, ubx_message, cpc, decVars, srvEnv>>

\* Lines 329-332, the lock released, then line 324.
PvtStore ==
    /\ ipc = "pvt_store"
    /\ data_buffer' = NavPvtUpdate(data_buffer, FrameOf(ubx_message)[3])
    /\ ubx_message' = <<>>
    /\ lockOwner' = "none"
    /\ ipc' = "bc_acquire"
    /\ bcRet' = "loop"
    /\ UNCHANGED <<config, original_heading, original_imu_pitch, original_imu_roll,
                   original_imu_heading, imu_heading_offset>>
    /\ UNCHANGED <<srvNet, json_data, bcList, bcIdx, attempted, failed>>
    /\ UNCHANGED <<imu_data, raw_message_imu, cpc, decVars, srvEnv>>

\* Lines 338-354, the lock released, then line 324.
RelStore ==
    /\ ipc = "rel_store"
    /\ data_buffer' = NavRelUpdate(data_buffer, FrameOf(ubx_message)[3])
    /\ original_heading' = NavRelHeading(FrameOf(ubx_message)[3])
    /\ ubx_message' = <<>>
    /\ lockOwner' = "none"
    /\ ipc' = "bc_acquire"
    /\ bcRet' = "loop"
    /\ UNCHANGED <<config, original_imu_pitch, original_imu_roll,
                   original_imu_heading, imu_heading_offset>>
    /\ UNCHANGED <<srvNet, json_data, bcList, bcIdx, attempted, failed>>
    /\ UNCHANGED <<imu_data, raw_message_imu, cpc, decVars, srvEnv>>

----
\* broadcast_data, line 112: with buffer_lock
BcAcquire ==
    /\ ipc = "bc_acquire"
    /\ lockOwner = "none"
    /\ lockOwner' = "ingest"
    /\ ipc' = "bc_apply"
    /\ UNCHANGED <<srvData, srvNet, srvBc, imu_data, raw_message_imu, ubx_message, cpc, decVars, srvEnv>>

\* Lines 114-122: the corrections are applied to data_buffer in place, the
\* record is serialized, the client list is copied.
BcApply ==
    /\ ipc = "bc_apply"
    /\ data_buffer' = ApplyOffsetAndSign(data_buffer, config, original_heading,
                           original_imu_pitch, original_imu_roll,
                           original_imu_heading, imu_heading_offset)
    /\ json_data' = JsonOf(data_buffer')
    /\ bcList' = clients
    /\ bcIdx' = 1
    /\ attempted' = {}
    /\ failed' = {}
    /\ ipc' = "bc_send"
    /\ UNCHANGED <<config, original_heading, original_imu_pitch, original_imu_roll,
                   original_imu_heading, imu_heading_offset>>
    /\ UNCHANGED <<srvNet, bcRet, lockOwner, imu_data, raw_message_imu, ubx_message, cpc, decVars, srvEnv>>

\* The socket the for loop is at.  A send to a hung consumer does not return:
\* no action is enabled for it.
BcAt(c) ==
    /\ ipc = "bc_send"
    /\ bcIdx <= Len(bcList)
    /\ c = bcList[bcIdx]

\* Lines 124-125: sendall returns.
BcSendOk(c) ==
    /\ BcAt(c)
    /\ sock[c] = "open"
    /\ attempted' = attempted \cup {c}
    /\ bcIdx' = bcIdx + 1
    /\ UNCHANGED <<srvData, srvNet, json_data, bcList, bcRet, failed, srvCtl, decVars, srvEnv>>

\* Lines 126-129: sendall raises, getpeername() in the handler's print
\* returns, and the socket is removed and closed.
BcSendFailRemove(c) ==
    /\ BcAt(c)
    /\ sock[c] = "reset"
    /\ attempted' = attempted \cup {c}
    /\ failed' = failed \cup {c}
    /\ clients' = Remove(clients, c)
    /\ sock' = [sock EXCEPT ![c] = "closed"]
    /\ bcIdx' = bcIdx + 1
    /\ UNCHANGED <<srvData, writes, json_data, bcList, bcRet, srvCtl, decVars, srvEnv>>

\* Lines 126-127: sendall raises and getpeername() on the disconnected socket
\* raises OSError inside the handler: the exception leaves broadcast_data
\* (releasing the lock) and read_serial_data, whose only handler is for
\* serial.SerialException.
BcSendFailRaise(c) ==
    /\ BcAt(c)
    /\ sock[c] = "reset"
    /\ attempted' = attempted \cup {c}
    /\ failed' = failed \cup {c}
    /\ lockOwner' = "none"
    /\ ipc' = "dead"
    /\ UNCHANGED <<srvData, srvNet, json_data, bcList, bcIdx, bcRet>>
    /\ UNCHANGED <<imu_data, raw_message_imu, ubx_message, cpc, decVars, srvEnv>>

\* The for loop is over: the lock is released and broadcast_data returns, to
\* the decode loop (and from there to line 306) or to the top of the loop.
BcDone ==
    /\ ipc = "bc_send"
    /\ bcIdx > Len(bcList)
    /\ lockOwner' = "none"
    /\ json_data' = <<>>        \* the locals are gone
    /\ bcList' = <<>>
    /\ bcIdx' = 1
    /\ attempted' = {}
    /\ failed' = {}
    /\ IF bcRet = "loop"
       THEN ipc' = "bc_acquire" /\ bcRet' = "top"
       ELSE ipc' = "top" /\ bcRet' = bcRet
    /\ UNCHANGED <<srvData, srvNet>>
    /\ UNCHANGED <<imu_data, raw_message_imu, ubx_message, cpc, decVars, srvEnv>>

----
\* adjust_imu_heading_offset, lines 229-230: the sleep is over, with buffer_lock
CalAcquire ==
    /\ cpc = "sleep"
    /\ lockOwner = "none"
    /\ lockOwner' = "calib"
    /\ cpc' = "tick"
    /\ UNCHANGED <<srvData, srvNet, srvBc, ipc, imu_data, raw_message_imu, ubx_message, decVars, srvEnv>>

\* Lines 231-254, and the lock released.
CalTick ==
    /\ cpc = "tick"
    /\ imu_heading_offset' =
           CalibratedOffset(imu_heading_offset, original_heading, original_imu_heading)
    /\ lockOwner' = "none"
    /\ cpc' = "sleep"
    /\ UNCHANGED <<config, data_buffer, original_heading, original_imu_pitch,
                   original_imu_roll, original_imu_heading>>
    /\ UNCHANGED <<srvNet, srvBc, ipc, imu_data, raw_message_imu, ubx_message, decVars, srvEnv>>

----
\* start_tcp_server accepts a connection and handle_client appends the socket
\* to clients (lines 157-160, 135); no lock is taken.
HandleClient(c) ==
    /\ c \in peers
    /\ sock[c] = "new"
    /\ sock' = [sock EXCEPT ![c] = "open"]
    /\ clients' = Append(clients, c)
    /\ UNCHANGED <<srvData, writes, srvBc, srvCtl, decVars, srvEnv>>

\* The consumer goes away: the next sendall to it raises.
PeerReset(c) ==
    /\ sock[c] = "open"
    /\ sock' = [sock EXCEPT ![c] = "reset"]
    /\ UNCHANGED <<srvData, clients, writes, srvBc, srvCtl, decVars, srvEnv>>

\* The consumer stops reading: the next sendall to it blocks for good.
PeerHang(c) ==
    /\ sock[c] = "open"
    /\ sock' = [sock EXCEPT ![c] = "hung"]
    /\ UNCHANGED <<srvData, clients, writes, srvBc, srvCtl, decVars, srvEnv>>

IngestStep ==
    \/ \E message \in lines : IngestImu(message)
    \/ IngestNoImu
    \/ ImuAcquire
    \/ ImuStore
    \/ \E message \in feed : GpsFrame(message)
    \/ GpsNoFrame
    \/ FrameAcquire
    \/ PvtStore
    \/ RelStore
    \/ BcAcquire
    \/ BcApply
    \/ \E c \in Clients : BcSendOk(c)
    \/ \E c \in Clients : BcSendFailRemove(c)
    \/ \E c \in Clients : BcSendFailRaise(c)
    \/ BcDone

CalStep == CalAcquire \/ CalTick

NetStep ==
    \/ \E c \in Clients : HandleClient(c)
    \/ \E c \in Clients : PeerReset(c)
    \/ \E c \in Clients : PeerHang(c)

NextSrv == IngestStep \/ CalStep \/ NetStep

SpecSrv == InitSrv /\ [][NextSrv]_vars

\* The same threads when the IMU sends a sentence without fields.
InitHang ==
    /\ DecIdle
    /\ SrvGlobals
    /\ peers = Clients
    /\ feed = { MkFrame(1, 7, PvtPayload(1), <<0, 0>>),
                MkFrame(1, 60, RelPayload(1), <<0, 0>>),
                MkFrame(5, 1, <<>>, <<0, 0>>) }
    /\ lines = { <<"$", "*">> }
    /\ config = DefaultConfig
    /\ ipc = "top"
    /\ cpc = "sleep"

\* The operating system schedules every thread that can run: the ingest
\* thread and the calibrator thread each take a step that stays enabled.
\* Nothing is assumed of the consumers.
SpecSrvFair == InitHang /\ [][NextSrv]_vars /\ WF_vars(IngestStep) /\ WF_vars(CalStep)

\* The same threads with one consumer and every frame of SrvFrames.
InitTel ==
    /\ DecIdle
    /\ SrvGlobals
    /\ peers = {1}
    /\ feed = SrvFrames
    /\ lines = SrvSentences
    /\ config = DefaultConfig
    /\ ipc = "top"
    /\ cpc = "sleep"

SpecTel == InitTel /\ [][NextSrv]_vars

\* Frames whose payload is shorter than the fields read from it: a NAV-PVT
\* frame of 4 bytes (iTOW 7 only) and a NAV-RELPOSNED frame of 24 bytes (up
\* to the baseline length, 1.34 m).
ShortFrames ==
    { MkFrame(1, 7, ToBytesLE(7, 4), <<0, 0>>),
      MkFrame(1, 60, Zeros(20) \o ToBytesLE(134, 4), <<0, 0>>) }

\* The same threads with one consumer when the receiver sends short frames
\* besides a full one.
InitShort ==
    /\ DecIdle
    /\ SrvGlobals
    /\ peers = {1}
    /\ feed = ShortFrames \cup { MkFrame(1, 7, PvtPayload(1), <<0, 0>>) }
    /\ lines = { <<"$", "C", "1", "0", ".", "5", "P", "1", ".", "5", "R", "-", "2", ".", "5", "T", "2", "0", ".", "0", "*", "3", "F">> }
    /\ config = DefaultConfig
    /\ ipc = "top"
    /\ cpc = "sleep"

SpecShort == InitShort /\ [][NextSrv]_vars

\* NAV-RELPOSNED payload with heading 355.00000 deg, no carrier solution
WrapPayload ==
    Zeros(24) \o ToBytesLE(35500000, 4) \o Zeros(8) \o ToBytesLE(0, 4)

\* NAV-RELPOSNED payload with heading 359.96000 deg, no carrier solution
NearFullTurnPayload ==
    Zeros(24) \o ToBytesLE(35996000, 4) \o Zeros(8) \o ToBytesLE(0, 4)

\* A configured heading_offset and the NAV-RELPOSNED frame received under it:
\* offset 10 with heading 355, offset 0 and offset 3.80999996 with heading
\* 1.34, offset 0 with heading 359.96.
Scenarios ==
    { [heading_offset |-> PyInt(10), frame |-> MkFrame(1, 60, WrapPayload, <<0, 0>>)],
      [heading_offset |-> PyInt(0), frame |-> MkFrame(1, 60, RelPayload(1), <<0, 0>>)],
      [heading_offset |-> PyFloat(380999996, 8),
       frame |-> MkFrame(1, 60, RelPayload(1), <<0, 0>>)],
      [heading_offset |-> PyInt(0),
       frame |-> MkFrame(1, 60, NearFullTurnPayload, <<0, 0>>)] }

\* The same threads with one consumer under a config.json that sets
\* heading_offset.
InitCfg ==
    /\ DecIdle
    /\ SrvGlobals
    /\ peers = {1}
    /\ \E sc \in Scenarios :
           /\ config = [DefaultConfig EXCEPT !.heading_offset = sc.heading_offset]
           /\ feed = { sc.frame, MkFrame(1, 7, PvtPayload(1), <<0, 0>>) }
    /\ lines = { <<"$", "C", "1", "0", ".", "5", "P", "1", ".", "5", "R", "-", "2", ".", "5", "T", "2", "0", ".", "0", "*", "3", "F">> }
    /\ ipc = "top"
    /\ cpc = "sleep"

SpecCfg == InitCfg /\ [][NextSrv]_vars

\* config.json files that set one flag each (the last one with an offset).
Configs ==
    { DefaultConfig,
      [DefaultConfig EXCEPT !.negate_roll = TRUE],
      [DefaultConfig EXCEPT !.negate_pitch = TRUE],
      [DefaultConfig EXCEPT !.negate_yaw = TRUE, !.heading_offset = PyInt(10)] }

\* Attitude sentences with a roll of 12.345 and a pitch of 5.14999996.
PipeSentences ==
    { <<"$", "C", "1", "0", ".", "5", "P", "5", ".", "1", "4", "9", "9", "9", "9", "9", "6", "R", "1", "2", ".", "3", "4", "5", "T", "2", "0", ".", "0", "*", "0", "0">>,
      <<"$", "C", "1", "0", ".", "5", "P", "1", ".", "5", "R", "-", "2", ".", "5", "T", "2", "0", ".", "0", "*", "3", "F">> }

\* The same threads with one consumer under each config.json of Configs.
InitPipe ==
    /\ DecIdle
    /\ SrvGlobals
    /\ peers = {1}
    /\ config \in Configs
    /\ feed = { MkFrame(1, 7, PvtPayload(1), <<0, 0>>),
                MkFrame(1, 60, RelPayload(1), <<0, 0>>),
                MkFrame(5, 1, <<>>, <<0, 0>>) }
    /\ lines = PipeSentences
    /\ ipc = "top"
    /\ cpc = "sleep"

SpecPipe == InitPipe /\ [][NextSrv]_vars

\* NAV-RELPOSNED payload with heading 181.00000 deg, no carrier solution
HalfTurnPayload ==
    Zeros(24) \o ToBytesLE(18100000, 4) \o Zeros(8) \o ToBytesLE(0, 4)

\* Attitude sentences whose heading is 0.05, 0.2 and 180.00000004 degrees
\* short of a GPS heading of the feed, and one 0.2 degrees past it.
CalSentences ==
    { <<"$", "C", "1", ".", "2", "9", "P", "1", "R", "1", "T", "1", "*", "0", "0">>,
      <<"$", "C", "1", ".", "1", "4", "P", "1", "R", "1", "T", "1", "*", "0", "0">>,
      <<"$", "C", "0", ".", "9", "9", "9", "9", "9", "9", "9", "6", "P", "1", "R", "1", "T", "1", "*", "0", "0">>,
      <<"$", "C", "1", ".", "5", "4", "P", "1", "R", "1", "T", "1", "*", "0", "0">> }

\* The same threads with one consumer, headings 1.34 and 181.0 from the
\* receiver and the sentences of CalSentences from the IMU.
InitCal ==
    /\ DecIdle
    /\ SrvGlobals
    /\ peers = {1}
    /\ config = DefaultConfig
    /\ feed = { MkFrame(1, 7, PvtPayload(1), <<0, 0>>),
                MkFrame(1, 60, RelPayload(1), <<0, 0>>),
                MkFrame(1, 60, HalfTurnPayload, <<0, 0>>) }
    /\ lines = CalSentences
    /\ ipc = "top"
    /\ cpc = "sleep"

SpecCal == InitCal /\ [][NextSrv]_vars

(***************************************************************************)
(* SpecImu: the threads of IMU_TCP_Server.py                               *)
(* Its globals have the names of the combined server's and are held in the *)
(* same variables; it has no GPS receiver and no calibrator thread.        *)
(***************************************************************************)
MaxWrites == 2    \* the count of writes to a failing socket saturates here

\* data_buffer's keys, lines 28-33
ImuFields == {"IMU_Heading", "IMU_Pitch", "IMU_Roll", "IMU_Temperature"}

\* parse_message, lines 123-160: the original_imu_* globals, IMU_Temperature
\* of data_buffer and the returned flag.  The four fields are converted in
\* order inside one try block: the first text that is not a number raises
\* ValueError, which keeps what was assigned before it and returns False.
ImuParseMessage(message, heading, pitch, roll, temperature) ==
    LET msg == StripFraming(message)
        c == Between(msg, "C", "P")
        p == Between(msg, "P", "R")
        r == Between(msg, "R", "T")
        t == Find(msg, "T", 0)
        temp == ParseFloat(Slice(msg, t + 1, Len(msg)))
        okC == c.present => ParseFloat(c.text).ok
        okP == okC /\ (p.present => ParseFloat(p.text).ok)
        okR == okP /\ (r.present => ParseFloat(r.text).ok)
        okT == okR /\ (t # -1 => temp.ok)
    IN  [ok |-> okT,
         original_imu_heading |->
             IF c.present /\ okC THEN ParseFloat(c.text).v ELSE heading,
         original_imu_pitch |->
             IF p.present /\ okP THEN ParseFloat(p.text).v ELSE pitch,
         original_imu_roll |->
             IF r.present /\ okR THEN ParseFloat(r.text).v ELSE roll,
         temperature |-> IF t # -1 /\ okT THEN temp.v ELSE temperature]

\* apply_offset_and_sign, lines 44-61: data after the call
ImuApplyOffsetAndSign(data, cfg, imu_pitch, imu_roll, imu_heading) ==
    LET d1 == [data EXCEPT
                !["IMU_Roll"] = Negated(cfg.negate_roll, imu_roll),
                !["IMU_Pitch"] = Negated(cfg.negate_pitch, imu_pitch),
                !["IMU_Heading"] = Negated(cfg.negate_yaw, imu_heading)]
    IN  FormatFields(d1, ImuFields, 7)

\* The module-level state created at lines 7-42, read_imu_data started in the
\* main thread (line 194).
\* The lines ser_imu.readline() returns: those of SrvSentences and one whose
\* first field is not a number.
ImuSentences ==
    SrvSentences \cup
    { <<"$", "C", "1", "x", "P", "2", ".", "5", "R", "3", ".", "5", "T", "4", ".", "5", "*", "0", "0">> }

InitImu ==
    /\ DecIdle
    /\ UdpIdle
    /\ CliIdle
    /\ peers = Clients
    /\ feed = {}
    /\ lines = ImuSentences
    /\ config = DefaultConfig
    /\ data_buffer = [f \in ImuFields |-> None]
    /\ clients = <<>>
    /\ original_heading = None
    /\ original_imu_pitch = None
    /\ original_imu_roll = None
    /\ original_imu_heading = None
    /\ imu_heading_offset = PyFloat(0, 0)
    /\ lockOwner = "none"
    /\ sock = [c \in Clients |-> "new"]
    /\ writes = [c \in Clients |-> 0]
    /\ imu_data = None
    /\ raw_message_imu = <<>>
    /\ ubx_message = <<>>
    /\ json_data = <<>>
    /\ bcList = <<>>
    /\ bcIdx = 1
    /\ bcRet = "top"
    /\ attempted = {}
    /\ failed = {}
    /\ ipc = "top"
    /\ cpc = "idle"

----
\* read_imu_data, lines 170-175: a line is waiting and parse_message runs on
\* it (no lock is held).
ReadImuLine(message) ==
    /\ ipc = "top"
    /\ LET r == ImuParseMessage(message, original_imu_heading, original_imu_pitch,
                                original_imu_roll, data_buffer["IMU_Temperature"])
       IN  /\ original_imu_heading' = r.original_imu_heading
           /\ original_imu_pitch' = r.original_imu_pitch
           /\ original_imu_roll' = r.original_imu_roll
           /\ data_buffer' = [data_buffer EXCEPT !["IMU_Temperature"] = r.temperature]
           /\ ipc' = IF r.ok THEN "imu_acquire" ELSE "bc_acquire"
    /\ raw_message_imu' = message
    /\ UNCHANGED <<config, original_heading, imu_heading_offset>>
    /\ UNCHANGED <<srvNet, srvBc, lockOwner, imu_data, ubx_message, cpc, decVars, srvEnv>>

\* Line 176: with buffer_lock
ReadImuAcquire ==
    /\ ipc = "imu_acquire"
    /\ lockOwner = "none"
    /\ lockOwner' = "ingest"
    /\ ipc' = "imu_store"
    /\ UNCHANGED <<srvData, srvNet, srvBc, imu_data, raw_message_imu, ubx_message, cpc, decVars, srvEnv>>

\* Lines 178-180, and the lock released.
ReadImuStore ==
    /\ ipc = "imu_store"
    /\ data_buffer' = [data_buffer EXCEPT
            !["IMU_Heading"] = original_imu_heading,
            !["IMU_Pitch"] = original_imu_pitch,
            !["IMU_Roll"] = original_imu_roll]
    /\ lockOwner' = "none"
    /\ ipc' = "bc_acquire"
    /\ UNCHANGED <<config, original_heading, original_imu_pitch, original_imu_roll,
                   original_imu_heading, imu_heading_offset>>
    /\ UNCHANGED <<srvNet, srvBc, imu_data, raw_message_imu, ubx_message, cpc, decVars, srvEnv>>

\* broadcast_data, line 65: with buffer_lock
ImuBroadcastAcquire ==
    /\ ipc = "bc_acquire"
    /\ lockOwner = "none"
    /\ lockOwner' = "ingest"
    /\ ipc' = "bc_apply"
    /\ UNCHANGED <<srvData, srvNet, srvBc, imu_data, raw_message_imu, ubx_message, cpc, decVars, srvEnv>>

\* Lines 67-75: the signs are applied to data_buffer in place, the record is
\* serialized, the client list is copied.
ImuBroadcastApply ==
    /\ ipc = "bc_apply"
    /\ data_buffer' = ImuApplyOffsetAndSign(data_buffer, config, original_imu_pitch,
                           original_imu_roll, original_imu_heading)
    /\ json_data' = JsonOf(data_buffer')
    /\ bcList' = clients
    /\ bcIdx' = 1
    /\ attempted' = {}
    /\ failed' = {}
    /\ ipc' = "bc_send"
    /\ UNCHANGED <<config, original_heading, original_imu_pitch, original_imu_roll,
                   original_imu_heading, imu_heading_offset>>
    /\ UNCHANGED <<srvNet, bcRet, lockOwner, imu_data, raw_message_imu, ubx_message, cpc, decVars, srvEnv>>

\* The socket the for loop of line 75 is at.
ImuBroadcastAt(c) ==
    /\ ipc = "bc_send"
    /\ bcIdx <= Len(bcList)
    /\ c = bcList[bcIdx]

\* writes after one more sendall on c
Written(c, raised) ==
    IF writes[c] > 0 \/ raised
    THEN [writes EXCEPT ![c] = IF @ < MaxWrites THEN @ + 1 ELSE @]
    ELSE writes

\* Lines 77-78: sendall returns.
ImuBroadcastSendOk(c) ==
    /\ ImuBroadcastAt(c)
    /\ sock[c] = "open"
    /\ attempted' = attempted \cup {c}
    /\ writes' = Written(c, FALSE)
    /\ bcIdx' = bcIdx + 1
    /\ UNCHANGED <<srvData, clients, sock, json_data, bcList, bcRet, failed, srvCtl,
                   decVars, srvEnv>>

\* Lines 79-83: sendall raises OSError (the peer has reset the connection, or
\* the socket is closed); the handler prints a fixed text, removes the socket
\* from clients and closes it.  list.remove of a socket that is not in the
\* list raises ValueError inside the handler, which leaves broadcast_data and
\* read_imu_data.
ImuBroadcastSendFail(c) ==
    /\ ImuBroadcastAt(c)
    /\ sock[c] \in {"reset", "closed"}
    /\ attempted' = attempted \cup {c}
    /\ failed' = failed \cup {c}
    /\ writes' = Written(c, TRUE)
    /\ IF c \in Range(clients)
       THEN /\ clients' = Remove(clients, c)
            /\ sock' = [sock EXCEPT ![c] = "closed"]
            /\ bcIdx' = bcIdx + 1
            /\ UNCHANGED <<lockOwner, ipc>>
       ELSE /\ lockOwner' = "none"
            /\ ipc' = "dead"
            /\ UNCHANGED <<clients, sock, bcIdx>>
    /\ UNCHANGED <<srvData, json_data, bcList, bcRet, imu_data, raw_message_imu, ubx_message, cpc,
                   decVars, srvEnv>>

\* The for loop is over: the lock is released and broadcast_data returns to
\* the loop of read_imu_data.
ImuBroadcastDone ==
    /\ ipc = "bc_send"
    /\ bcIdx > Len(bcList)
    /\ lockOwner' = "none"
    /\ json_data' = <<>>        \* the locals are gone
    /\ bcList' = <<>>
    /\ bcIdx' = 1
    /\ attempted' = {}
    /\ failed' = {}
    /\ ipc' = "top"
    /\ UNCHANGED <<srvData, srvNet, bcRet, imu_data, raw_message_imu, ubx_message, cpc, decVars, srvEnv>>

\* start_tcp_server accepts a connection and handle_client appends the socket
\* to clients (lines 116-119, 94); no lock is taken.
ImuHandleClient(c) ==
    /\ c \in peers
    /\ sock[c] = "new"
    /\ sock' = [sock EXCEPT ![c] = "open"]
    /\ clients' = Append(clients, c)
    /\ UNCHANGED <<srvData, writes, srvBc, srvCtl, decVars, srvEnv>>

NextImu ==
    \/ \E message \in lines : ReadImuLine(message)
    \/ ReadImuAcquire
    \/ ReadImuStore
    \/ ImuBroadcastAcquire
    \/ ImuBroadcastApply
    \/ \E c \in Clients : ImuBroadcastSendOk(c)
    \/ \E c \in Clients : ImuBroadcastSendFail(c)
    \/ ImuBroadcastDone
    \/ \E c \in Clients : ImuHandleClient(c)
    \/ \E c \in Clients : PeerReset(c)
    \/ \E c \in Clients : PeerHang(c)

SpecImu == InitImu /\ [][NextImu]_vars

(***************************************************************************)
(* SpecUdp: the threads of RAW_GPS_IMU_UDP_Server.py                       *)
(* start_udp_server and the sendto loop of IMU_UDP_Server.py (lines 78-84  *)
(* and 74-75) are the same statements.  An address is a number of Clients, *)
(* a payload a sequence of bytes.                                          *)
(***************************************************************************)
MaxConnects == 2    \* "connect" datagrams one address sends

\* b"connect"
ConnectBytes == <<99, 111, 110, 110, 101, 99, 116>>

\* The payloads a consumer sends: "connect", "connect\n", "Connect" and the
\* single byte 0xFF.
Payloads ==
    { ConnectBytes,
      ConnectBytes \o <<10>>,
      <<67, 111, 110, 110, 101, 99, 116>>,
      <<255>> }

\* message.decode('utf-8') returns (ASCII bytes decode to themselves; 0xFF
\* starts no UTF-8 sequence and raises UnicodeDecodeError).
DecodesUtf8(message) == \A i \in 1..Len(message) : message[i] < 128

\* message.decode('utf-8') == "connect"
IsConnect(message) == DecodesUtf8(message) /\ message = ConnectBytes

\* The module-level state created at lines 10-14, start_udp_server started as
\* a daemon thread (lines 60-61), read_serial_data in the main thread.
InitUdp ==
    /\ DecIdle
    /\ CliIdle
    /\ config = DefaultConfig
    /\ data_buffer = EmptyData
    /\ clients = <<>>
    /\ original_heading = None
    /\ original_imu_pitch = None
    /\ original_imu_roll = None
    /\ original_imu_heading = None
    /\ imu_heading_offset = PyFloat(0, 0)
    /\ lockOwner = "none"
    /\ sock = [c \in Clients |-> "new"]
    /\ writes = [c \in Clients |-> 0]
    /\ imu_data = None
    /\ raw_message_imu = <<>>
    /\ ubx_message = <<>>
    /\ json_data = <<>>
    /\ bcList = <<>>
    /\ bcIdx = 1
    /\ bcRet = "top"
    /\ attempted = {}
    /\ failed = {}
    /\ peers = Clients
    /\ feed = {}
    /\ lines = { <<"R", "7">> }
    /\ ipc = "top"
    /\ cpc = "idle"
    /\ datagrams = {}
    /\ greeted = [c \in Clients |-> 0]
    /\ delivered = {}
    /\ upc = "recv"

----
\* A consumer at address a sends a datagram to the server's port.
UdpClientSends(a, payload) ==
    /\ a \in peers
    /\ payload = ConnectBytes => greeted[a] < MaxConnects
    /\ datagrams' = datagrams \cup {[message |-> payload, address |-> a]}
    /\ greeted' = IF payload = ConnectBytes
                  THEN [greeted EXCEPT ![a] = greeted[a] + 1]
                  ELSE greeted
    /\ UNCHANGED <<decVars, srvData, srvNet, srvBc, srvCtl, peers, feed, lines, cliVars, upc, delivered>>

\* The network drops a datagram.
UdpLose(d) ==
    /\ d \in datagrams
    /\ datagrams' = datagrams \ {d}
    /\ UNCHANGED <<decVars, srvData, srvNet, srvBc, srvCtl, peers, feed, lines, cliVars, upc, greeted, delivered>>

\* Mutant: any decodable datagram registers its sender.
UdpRecvAnyPayload(d) ==
    /\ upc = "recv"
    /\ d \in datagrams
    /\ DecodesUtf8(d.message)
    /\ datagrams' = datagrams \ {d}
    /\ clients' = IF d.address \notin Range(clients)
                  THEN Append(clients, d.address)
                  ELSE clients
    /\ UNCHANGED <<decVars, srvData, sock, writes, srvBc, srvCtl, peers, feed, lines, cliVars, upc, greeted, delivered>>

\* start_udp_server, lines 27-30: recvfrom returns a datagram that decodes;
\* its address is appended when the text is "connect" and the address is not
\* in clients yet.
UdpRecv(d) ==
    /\ upc = "recv"
    /\ d \in datagrams
    /\ DecodesUtf8(d.message)
    /\ datagrams' = datagrams \ {d}
    /\ clients' = IF IsConnect(d.message) /\ d.address \notin Range(clients)
                  THEN Append(clients, d.address)
                  ELSE clients
    /\ UNCHANGED <<decVars, srvData, sock, writes, srvBc, srvCtl, peers, feed, lines, cliVars, upc, greeted, delivered>>

\* Line 28: message.decode('utf-8') raises UnicodeDecodeError, which nothing
\* catches: the daemon thread ends.
UdpRecvUndecodable(d) ==
    /\ upc = "recv"
    /\ d \in datagrams
    /\ ~DecodesUtf8(d.message)
    /\ datagrams' = datagrams \ {d}
    /\ upc' = "dead"
    /\ UNCHANGED <<decVars, srvData, srvNet, srvBc, srvCtl, peers, feed, lines, cliVars, greeted, delivered>>

\* read_serial_data, lines 44-47 and 50-53: raw bytes were read from a serial
\* port and broadcast_raw_data is called on them.
UdpReadRaw(raw_data) ==
    /\ ipc = "top"
    /\ json_data' = raw_data
    /\ bcIdx' = 1
    /\ ipc' = "udp_send"
    /\ UNCHANGED <<decVars, srvData, srvNet, bcList, bcRet, attempted, failed>>
    /\ UNCHANGED <<lockOwner, imu_data, raw_message_imu, ubx_message, cpc, srvEnv>>

\* Lines 19-20: the for loop over the live list clients sends to the next
\* address.
UdpSendTo ==
    /\ ipc = "udp_send"
    /\ bcIdx <= Len(clients)
    /\ delivered' = delivered \cup {clients[bcIdx]}
    /\ bcIdx' = bcIdx + 1
    /\ UNCHANGED <<decVars, srvData, srvNet, json_data, bcList, bcRet, attempted, failed>>
    /\ UNCHANGED <<srvCtl, peers, feed, lines, cliVars, datagrams, upc, greeted>>

\* The for loop is over.
UdpSendDone ==
    /\ ipc = "udp_send"
    /\ bcIdx > Len(clients)
    /\ json_data' = <<>>
    /\ bcIdx' = 1
    /\ ipc' = "top"
    /\ UNCHANGED <<decVars, srvData, srvNet, bcList, bcRet, attempted, failed>>
    /\ UNCHANGED <<lockOwner, imu_data, raw_message_imu, ubx_message, cpc, srvEnv>>

NextUdp ==
    \/ \E a \in Clients : \E payload \in Payloads : UdpClientSends(a, payload)
    \/ \E d \in datagrams : UdpLose(d)
    \/ \E d \in datagrams : UdpRecv(d)
    \/ \E d \in datagrams : UdpRecvUndecodable(d)
    \/ \E raw_data \in lines \cup feed : UdpReadRaw(raw_data)
    \/ UdpSendTo
    \/ UdpSendDone

SpecUdp == InitUdp /\ [][NextUdp]_vars

(***************************************************************************)
(* The outbound clients                                                    *)
(***************************************************************************)
MaxCalls == 4    \* calls of send_data_to_server (broadcast_data) in one run

\* What a variable holds before its first assignment: reading the name
\* raises NameError.
Unbound == [kind |-> "unbound", w |-> 0, m |-> 0, e |-> 0, p |-> 0, s |-> ""]

\* What the client programs never write.
cliRest == <<srvNet, bcList, bcIdx, bcRet, attempted, failed, srvCtl, peers, lines,
             udpVars, config, original_imu_pitch, original_imu_roll,
             original_imu_heading, imu_heading_offset>>

\* The state of a client program before its read_serial_data starts, apart
\* from the record, the heading and the serial input.
ClientGlobals ==
    /\ UdpIdle
    /\ config = DefaultConfig
    /\ clients = <<>>
    /\ original_imu_pitch = None
    /\ original_imu_roll = None
    /\ original_imu_heading = None
    /\ imu_heading_offset = PyFloat(0, 0)
    /\ lockOwner = "none"
    /\ sock = [c \in Clients |-> "new"]
    /\ writes = [c \in Clients |-> 0]
    /\ imu_data = None
    /\ raw_message_imu = <<>>
    /\ ubx_message = <<>>
    /\ json_data = <<>>
    /\ bcList = <<>>
    /\ bcIdx = 1
    /\ bcRet = "top"
    /\ attempted = {}
    /\ failed = {}
    /\ peers = {}
    /\ lines = {}               \* the attitude sensor is silent
    /\ ipc = "idle"
    /\ cpc = "idle"
    /\ client_socket = "none"
    /\ calls = 0
    /\ sent = <<>>

\* fields_to_round_seven of the clients that format the position only
PositionFields == {"Latitude", "Longitude"}

\* apply_offset_and_sign of GPS_IMU_TCP_Client.py (lines 70-104) and of
\* GPS_IMU_UDP_Client.py (lines 63-99): data after the call.  seven is the
\* client's fields_to_round_seven.
ClientApplyOffsetAndSign(data, cfg, heading, imu_pitch, imu_roll, imu_heading, seven) ==
    LET d1 == [data EXCEPT
                !["Heading"] =
                    IF ~IsNone(heading)
                    THEN FMod360(FAdd(heading, cfg.heading_offset))
                    ELSE None,
                !["IMU_Roll"] = Negated(cfg.negate_roll, imu_roll),
                !["IMU_Pitch"] = Negated(cfg.negate_pitch, imu_pitch),
                !["IMU_Heading"] = Negated(cfg.negate_yaw, imu_heading)]
        d2 == FormatFields(d1, seven, 7)
    IN  FormatFields(d2, fields_to_round_one, 1)

IsNavPvt(message) == message[3] = 1 /\ message[4] = 7
IsNavRel(message) == message[3] = 1 /\ message[4] = 60

(***************************************************************************)
(* SpecTcpClient: GPS_IMU_TCP_Client.py                                    *)
(***************************************************************************)
InitTcpClient ==
    /\ ClientGlobals
    /\ DecIdle
    /\ data_buffer = EmptyData
    /\ original_heading = None
    /\ feed = SrvFrames
    /\ kpc = "loop"

\* read_serial_data lines 168-171 and parse_ubx_message lines 240-250: the
\* decode loop hands a complete frame over and its fields are stored; the
\* call of line 253 follows.
CliStoreFrame(message) ==
    /\ kpc = "loop"
    /\ message \in feed
    /\ LET payload == FrameOf(message)[3]
       IN  /\ data_buffer' = IF IsNavPvt(message) THEN NavPvtUpdate(data_buffer, payload)
                             ELSE IF IsNavRel(message) THEN NavRelUpdate(data_buffer, payload)
                             ELSE data_buffer
           /\ original_heading' = IF IsNavRel(message) THEN NavRelHeading(payload)
                                  ELSE original_heading
    /\ kpc' = "call"
    /\ UNCHANGED <<decVars, cliRest, json_data, feed, client_socket, calls, sent>>

\* Line 176: the call at the end of an iteration of the while True loop.
CliLoopEnd ==
    /\ kpc = "loop"
    /\ kpc' = "call"
    /\ UNCHANGED <<decVars, cliRest, data_buffer, original_heading, json_data, feed,
                   client_socket, calls, sent>>

\* send_data_to_server, lines 109-115: the record is corrected in place and
\* serialized; init_socket is called when client_socket is None.
CliSendBegin ==
    /\ kpc = "call"
    /\ calls < MaxCalls
    /\ data_buffer' = ClientApplyOffsetAndSign(data_buffer, config, original_heading,
                          original_imu_pitch, original_imu_roll, original_imu_heading,
                          PositionFields)
    /\ json_data' = JsonOf(data_buffer')
    /\ calls' = calls + 1
    /\ kpc' = IF client_socket = "none" THEN "connect" ELSE "sendall"
    /\ UNCHANGED <<decVars, cliRest, original_heading, feed, client_socket, sent>>

\* init_socket, lines 58-67: connect succeeds, or raises and client_socket is
\* None ("No connection to server. Data not sent.", line 126).
CliConnect(ok) ==
    /\ kpc = "connect"
    /\ client_socket' = IF ok THEN "open" ELSE "none"
    /\ kpc' = IF ok THEN "sendall" ELSE "loop"
    /\ UNCHANGED <<decVars, cliRest, data_buffer, original_heading, json_data, feed,
                   calls, sent>>

\* Lines 118-120: sendall returns.
CliSendOk ==
    /\ kpc = "sendall"
    /\ sent' = Append(sent, calls)
    /\ kpc' = "loop"
    /\ UNCHANGED <<decVars, cliRest, data_buffer, original_heading, json_data, feed,
                   client_socket, calls>>

\* Lines 121-124: sendall raises BrokenPipeError or ConnectionResetError; the
\* socket is closed and client_socket reset.
CliSendLost ==
    /\ kpc = "sendall"
    /\ client_socket' = "none"
    /\ kpc' = "loop"
    /\ UNCHANGED <<decVars, cliRest, data_buffer, original_heading, json_data, feed,
                   calls, sent>>

\* sendall raises another OSError (TimeoutError for ETIMEDOUT, EHOSTUNREACH,
\* ConnectionAbortedError): line 121 does not catch it, nor does
\* read_serial_data (line 178 catches serial.SerialException only), so the
\* program ends with the socket as it was.
CliSendRaises ==
    /\ kpc = "sendall"
    /\ kpc' = "exited"
    /\ UNCHANGED <<decVars, cliRest, data_buffer, original_heading, json_data, feed,
                   client_socket, calls, sent>>

NextTcpClient ==
    \/ \E message \in feed : CliStoreFrame(message)
    \/ CliLoopEnd
    \/ CliSendBegin
    \/ \E ok \in BOOLEAN : CliConnect(ok)
    \/ CliSendOk
    \/ CliSendLost
    \/ CliSendRaises

SpecTcpClient == InitTcpClient /\ [][NextTcpClient]_vars

(***************************************************************************)
(* SpecGpsUdp: GPS_UDP_Client.py                                           *)
(***************************************************************************)
\* data_buffer of GPS_UDP_Client.py, lines 33-41
GpsFields ==
    {"Timestamp", "Latitude", "Longitude", "Altitude", "Heading", "Antenna_Distance",
     "RTK_Fix_Quality"}

\* parse_ubx_navrelposned of GPS_UDP_Client.py, lines 119-139: the decoded
\* label is stored
GpsUdpNavRelUpdate(data, payload) ==
    [data EXCEPT
        !["Antenna_Distance"] = PyFloat(FromBytesLE(Slice(payload, 20, 24)), 2),
        !["RTK_Fix_Quality"] = PyTxt(RtkFixQuality(payload))]

\* apply_offset_and_sign of GPS_UDP_Client.py, lines 54-79, once
\* original_heading has a value
GpsUdpApplyOffsetAndSign(data, cfg, heading) ==
    LET d1 == [data EXCEPT
                !["Heading"] =
                    IF ~IsNone(heading)
                    THEN FMod360(FAdd(heading, cfg.heading_offset))
                    ELSE None]
        d2 == FormatFields(d1, PositionFields, 7)
    IN  FormatFields(d2, {"Altitude", "Heading", "Antenna_Distance"}, 1)

\* The module assigns original_heading nowhere at top level: the name is
\* unbound until parse_ubx_navrelposned runs (line 124).
InitGpsUdp ==
    /\ ClientGlobals
    /\ DecIdle
    /\ data_buffer = [f \in GpsFields |-> None]
    /\ original_heading = Unbound
    /\ feed = SrvFrames
    /\ kpc = "loop"

\* read_serial_data lines 163-166, parse_ubx_message lines 99-106: a complete
\* frame is handed over and stored; broadcast_data (line 109) follows.
GpsUdpFrame(message) ==
    /\ kpc = "loop"
    /\ message \in feed
    /\ LET payload == FrameOf(message)[3]
       IN  /\ data_buffer' = IF IsNavPvt(message) THEN NavPvtUpdate(data_buffer, payload)
                             ELSE IF IsNavRel(message)
                                  THEN GpsUdpNavRelUpdate(data_buffer, payload)
                             ELSE data_buffer
           /\ original_heading' = IF IsNavRel(message) THEN NavRelHeading(payload)
                                  ELSE original_heading
    /\ kpc' = "publish"
    /\ frames' = Append(frames, FrameOf(message))
    /\ UNCHANGED <<layout, stream, pos, buffer_gps, cliRest, json_data, feed,
                   client_socket, calls, sent>>

\* Line 173: broadcast_data at the end of an iteration of the while True loop.
GpsUdpLoopEnd ==
    /\ kpc = "loop"
    /\ kpc' = "publish"
    /\ UNCHANGED <<decVars, cliRest, data_buffer, original_heading, json_data, feed,
                   client_socket, calls, sent>>

\* broadcast_data, lines 83-94, with original_heading bound.
GpsUdpPublish ==
    /\ kpc = "publish"
    /\ original_heading # Unbound
    /\ calls < MaxCalls
    /\ data_buffer' = GpsUdpApplyOffsetAndSign(data_buffer, config, original_heading)
    /\ json_data' = JsonOf(data_buffer')
    /\ calls' = calls + 1
    /\ kpc' = "loop"
    /\ UNCHANGED <<decVars, cliRest, original_heading, feed, client_socket, sent>>

\* Line 54 reads original_heading while it is unbound: NameError.  Nothing
\* between there and the top of the program catches it (line 175 catches
\* serial.SerialException only).
GpsUdpPublishRaises ==
    /\ kpc = "publish"
    /\ original_heading = Unbound
    /\ kpc' = "exited"
    /\ UNCHANGED <<decVars, cliRest, data_buffer, original_heading, json_data, feed,
                   client_socket, calls, sent>>

NextGpsUdp ==
    \/ \E message \in feed : GpsUdpFrame(message)
    \/ GpsUdpLoopEnd
    \/ GpsUdpPublish
    \/ GpsUdpPublishRaises

SpecGpsUdp == InitGpsUdp /\ [][NextGpsUdp]_vars

(***************************************************************************)
(* SpecCombo: the GPS part of read_serial_data of GPS_IMU_UDP_Client.py    *)
(***************************************************************************)
\* A 60-byte frame, the size line 209 waits for.
ComboFrame == MkFrame(1, 7, Zeros(52), <<0, 0>>)

ComboSegment ==
    [kind : {"frame"}, bytes : {ComboFrame}] \cup
    [kind : {"junk"}, bytes : { <<0>>, <<181>> }]

ComboLayouts == UNION { [1..n -> ComboSegment] : n \in 0..MaxSegs }

\* What one ser_gps.read can return: a few bytes, or a whole frame that was
\* waiting.
ComboChunks == (1..MaxChunk) \cup {Len(ComboFrame)}

InitCombo ==
    /\ ClientGlobals
    /\ data_buffer = EmptyData
    /\ original_heading = None      \* line 56
    /\ feed = {}
    /\ layout \in ComboLayouts
    /\ stream = BytesOf(layout)
    /\ pos = 0
    /\ buffer_gps = <<>>            \* line 187
    /\ frames = <<>>
    /\ kpc = "gps_read"

\* Lines 205-218: n bytes are read and appended.  When the buffer starts with
\* the sync marker and holds 60 bytes, parse_ubx_message is called: the name
\* is defined nowhere in the file, the NameError is caught at line 216, and
\* the buffer is emptied.  In every other case the buffer is left as it is.
ComboRead(n) ==
    /\ kpc = "gps_read"
    /\ pos + n <= Len(stream)
    /\ LET b == buffer_gps \o SubSeq(stream, pos + 1, pos + n)
       IN  buffer_gps' = IF Len(b) > 4 /\ StartsWith(b, UBX_HEADER) /\ Len(b) >= 60
                         THEN <<>>
                         ELSE b
    /\ pos' = pos + n
    /\ kpc' = "publish"
    /\ UNCHANGED <<layout, stream, frames, cliRest, data_buffer, original_heading,
                   json_data, feed, client_socket, calls, sent>>

\* Line 205 times out and returns b'': line 206 skips the decoder.
ComboReadEmpty ==
    /\ kpc = "gps_read"
    /\ kpc' = "publish"
    /\ UNCHANGED <<decVars, cliRest, data_buffer, original_heading, json_data, feed,
                   client_socket, calls, sent>>

\* Line 221: broadcast_data, lines 102-115.
ComboPublish ==
    /\ kpc = "publish"
    /\ data_buffer' = ClientApplyOffsetAndSign(data_buffer, config, original_heading,
                          original_imu_pitch, original_imu_roll, original_imu_heading,
                          fields_to_round_seven)
    /\ json_data' = JsonOf(data_buffer')
    /\ kpc' = "gps_read"
    /\ UNCHANGED <<decVars, cliRest, original_heading, feed, client_socket, calls, sent>>

NextCombo ==
    \/ \E n \in ComboChunks : ComboRead(n)
    \/ ComboReadEmpty
    \/ ComboPublish

SpecCombo == InitCombo /\ [][NextCombo]_vars

\* The main thread keeps running.
SpecComboFair == InitCombo /\ [][NextCombo]_vars /\ WF_vars(NextCombo)

(***************************************************************************)
(* Claims about the decoder                                                *)
(***************************************************************************)
\* The decode loop run once over the first n bytes of the stream.
OneChunk(n) == DecodeLoop(SubSeq(stream, 1, n), <<>>)

\* C1: chunking independence. However the bytes read so far were split into
\* chunks, the frames extracted (and the bytes retained) are those the decode
\* loop yields when the same bytes are appended as one single chunk.
C1_ChunkingIndependence ==
    /\ frames = OneChunk(pos).out
    /\ buffer_gps = OneChunk(pos).buf

\* C1 witness: a stream longer than any single read, fully delivered, from
\* which at least two frames were extracted across chunk boundaries.
C1_Witness ==
    /\ pos = Len(stream)
    /\ Len(stream) > 2 * MaxChunk
    /\ Len(frames) >= 2

\* The layouts C2 is about: well-formed frames, exactly one of them with a
\* corrupted sync marker, and at least one well-formed frame after it.
CorruptAt(lay) ==
    { k \in 1..Len(lay) :
        /\ lay[k].kind = "corrupt"
        /\ k < Len(lay)
        /\ \A i \in 1..Len(lay) : i # k => lay[i].kind = "frame" }

HasSync(s) == \E i \in 1..(Len(s) - 1) : s[i] = 181 /\ s[i + 1] = 98

\* The frames of the well-formed segments after segment k, in stream order.
Following(lay, k) == [i \in 1..(Len(lay) - k) |-> FrameOf(lay[k + i].bytes)]

IsSuffix(t, s) ==
    /\ Len(t) <= Len(s)
    /\ SubSeq(s, Len(s) - Len(t) + 1, Len(s)) = t

\* C2 as stated: whatever the bytes of the corrupted frame are, every
\* well-formed frame after it has been extracted once the whole stream is
\* delivered.
C2_ResyncKeepsLaterFrames ==
    \A k \in CorruptAt(layout) :
        pos = Len(stream) =>
            \A i \in 1..(Len(layout) - k) :
                \E j \in 1..Len(frames) : frames[j] = Following(layout, k)[i]

\* C2 amended: if the corrupted frame's bytes contain no 0xB5 0x62 pair, the
\* well-formed frames after it are, once the whole stream is delivered, the
\* last frames extracted, in order.
C2_ResyncKeepsLaterFramesNoFalseSync ==
    \A k \in CorruptAt(layout) :
        (pos = Len(stream) /\ ~HasSync(layout[k].bytes)) =>
            IsSuffix(Following(layout, k), frames)

\* C2 witness: a frame, a corrupted frame without a false marker, a frame;
\* all bytes delivered and both well-formed frames extracted.
C2_Witness ==
    /\ pos = Len(stream)
    /\ Len(layout) = 3
    /\ 2 \in CorruptAt(layout)
    /\ ~HasSync(layout[2].bytes)
    /\ Len(frames) = 2

(***************************************************************************)
(* Claims about the combined server's threads                              *)
(***************************************************************************)
\* C3: fault isolation. When a call of broadcast_data in which a write failed
\* is over, sendall has been called in it on every socket that was in the
\* client list when the call copied it.
C3_FaultIsolation ==
    [][ (ipc = "bc_send" /\ ipc' # "bc_send" /\ (failed \cup failed') # {})
            => Range(bcList) \subseteq (attempted \cup attempted') ]_vars

\* C5: no error terminates the ingest loop: read_serial_data is never left.
C5_IngestLoopNeverExits == ipc # "dead"

\* C6: no thread is inside a socket write to a consumer while it holds
\* buffer_lock.
C6_NoSendUnderLock ==
    ~(ipc = "bc_send" /\ bcIdx <= Len(bcList) /\ lockOwner = "ingest")

\* The ingest thread is inside sendall on a consumer that does not read.
BlockedOnHung ==
    /\ ipc = "bc_send"
    /\ bcIdx <= Len(bcList)
    /\ sock[bcList[bcIdx]] = "hung"

\* C7: a hung consumer does not stall the others. Whenever the write to a
\* consumer blocks, the calibrator still eventually runs a tick and the ingest
\* thread still eventually publishes a later record.
C7_HungConsumerDoesNotStall ==
    /\ BlockedOnHung ~> (cpc = "tick")
    /\ BlockedOnHung ~> (ipc = "bc_apply")

\* C8: membership exclusion. Every step that changes the client list is taken
\* by a thread holding buffer_lock: an admission by the admitting client
\* thread, a removal by the ingest thread inside broadcast_data.
C8_MembershipUnderLock ==
    [][ clients' # clients =>
            \/ Len(clients') > Len(clients) /\ lockOwner = "client"
            \/ Len(clients') < Len(clients) /\ lockOwner = "ingest" ]_vars

\* C9: every write to a raw telemetry value (data_buffer, original_heading,
\* original_imu_heading, original_imu_pitch, original_imu_roll) is made by the
\* ingest thread while it holds buffer_lock.
C9_RawWritesUnderLock ==
    [][ \/ data_buffer' # data_buffer
        \/ original_heading' # original_heading
        \/ original_imu_heading' # original_imu_heading
        \/ original_imu_pitch' # original_imu_pitch
        \/ original_imu_roll' # original_imu_roll
        => lockOwner = "ingest" ]_vars

\* What a record shows of NAV-PVT frame k and of NAV-RELPOSNED frame k
\* (heading_offset 0), from the frames' contents: PvtPayload, RelPayload.
Has(rec, f) == f \in DOMAIN rec

ShowsPvt(rec, k) ==
    /\ \A f \in {"Timestamp", "Latitude", "Longitude", "Altitude"} : Has(rec, f)
    /\ rec["Timestamp"] = PyInt(k)
    /\ rec["Latitude"] = PyNumStr(k, 7, 7)
    /\ rec["Longitude"] = PyNumStr(k, 7, 7)
    /\ rec["Altitude"] = PyNumStr(10 * k + 3, 1, 1)

ShowsRel(rec, k) ==
    /\ \A f \in {"Antenna_Distance", "Heading", "RTK_Fix_Quality"} : Has(rec, f)
    /\ rec["Antenna_Distance"] = PyNumStr(10 * k + 3, 1, 1)
    /\ rec["Heading"] = PyNumStr(10 * k + 3, 1, 1)

\* C10: no published record reflects a half-applied frame. In the record
\* broadcast_data is sending, Timestamp, Latitude, Longitude and Altitude are
\* all absent or all those of one NAV-PVT frame, and Antenna_Distance, Heading
\* and RTK_Fix_Quality are all absent or all written by one NAV-RELPOSNED frame.
C10_NoHalfAppliedFrame ==
    ipc = "bc_send" =>
        /\ \/ \A f \in {"Timestamp", "Latitude", "Longitude", "Altitude"} :
                  ~Has(json_data, f)
           \/ \E k \in Tags : ShowsPvt(json_data, k)
        /\ \/ \A f \in {"Antenna_Distance", "Heading", "RTK_Fix_Quality"} :
                  ~Has(json_data, f)
           \/ \E k \in Tags : ShowsRel(json_data, k)

\* C10 witness: a record showing the second frame of each type, after the
\* calibrator has changed the offset, has been written to the consumer.
C10_Witness ==
    /\ ipc = "bc_send"
    /\ ShowsPvt(json_data, 2)
    /\ ShowsRel(json_data, 2)
    /\ imu_heading_offset # PyFloat(0, 0)
    /\ attempted # {}

(***************************************************************************)
(* Claims about the IMU-only server                                        *)
(***************************************************************************)
\* C4: failed-consumer removal. A socket whose sendall has raised has been
\* written to exactly once from that write on (no later publish writes to it
\* again), is no longer in the client list and is closed; the handler of the
\* failed write does all of it, so it holds before the publish call is over.
C4_FailedConsumerRemoved ==
    \A c \in Clients :
        writes[c] > 0 =>
            /\ writes[c] = 1
            /\ c \notin Range(clients)
            /\ sock[c] = "closed"

\* C4 witness: a later publish is writing to another consumer after one
\* consumer's write failed in an earlier publish.
C4_Witness ==
    \E c, d \in Clients :
        /\ c # d
        /\ writes[c] = 1
        /\ sock[c] = "closed"
        /\ ipc = "bc_send"
        /\ c \notin Range(bcList)
        /\ d \in attempted

(***************************************************************************)
(* Claims about one iteration of the decode loop                           *)
(***************************************************************************)
\* The buffer starts with the two bytes 0xB5 0x62.
SyncAtHead(buf) == Len(buf) >= 2 /\ buf[1] = 181 /\ buf[2] = 98

\* L: the little-endian 16-bit value of bytes 4-5 (0-based) of the buffer
DeclaredLength(buf) == buf[5] + 256 * buf[6]

\* The buffer starts with the marker and holds less than its whole frame.
PartialFrame(buf) ==
    /\ SyncAtHead(buf)
    /\ Len(buf) < 6 \/ Len(buf) < 6 + DeclaredLength(buf) + 2

\* C11: a partial frame is never discarded. While the buffer starts with the
\* sync marker and holds fewer bytes than 6 + declared length + 2, a pass of
\* the decoder emits no frame and leaves the buffer as it is; the buffer only
\* changes by a read appending bytes to it.
C11_PartialFrameKept ==
    [][ PartialFrame(buffer_gps) =>
            /\ frames' = frames
            /\ \/ buffer_gps' = buffer_gps
               \/ /\ ipc = "gps_read"
                  /\ Len(buffer_gps') > Len(buffer_gps)
                  /\ SubSeq(buffer_gps', 1, Len(buffer_gps)) = buffer_gps ]_vars

\* C11 witness: the decoder has looked at a header whose frame is incomplete
\* and gone back to reading, the partial frame still buffered and input left.
C11_Witness ==
    /\ ipc = "gps_read"
    /\ Len(buffer_gps) >= 6
    /\ PartialFrame(buffer_gps)
    /\ pos < Len(stream)

\* C12: on a sync mismatch exactly one byte is discarded. When an iteration of
\* the loop finds that the buffer does not start with the marker, the buffer
\* after it is the buffer without its first byte and no frame is emitted.
C12_MismatchDropsOneByte ==
    [][ (ipc = "gps_decode" /\ Len(buffer_gps) >= 6 /\ ~SyncAtHead(buffer_gps)) =>
            /\ buffer_gps' = Tail(buffer_gps)
            /\ frames' = frames ]_vars

\* C12 witness: bytes have been discarded without any frame being emitted,
\* and bytes that followed the discarded ones are still buffered.
C12_Witness ==
    /\ frames = <<>>
    /\ buffer_gps # <<>>
    /\ Len(buffer_gps) < pos

\* C13: frame extraction. When an iteration finds the marker at the head and
\* at least 6 + L + 2 bytes buffered, exactly one frame is emitted, with class
\* byte 2, id byte 3 and the L bytes after the 6-byte header as payload, and
\* exactly 6 + L + 2 bytes are removed from the front of the buffer.
C13_FrameExtraction ==
    [][ (/\ ipc = "gps_decode"
         /\ Len(buffer_gps) >= 6
         /\ SyncAtHead(buffer_gps)
         /\ Len(buffer_gps) >= 6 + DeclaredLength(buffer_gps) + 2) =>
            LET L == DeclaredLength(buffer_gps)
            IN  /\ frames' = Append(frames, <<buffer_gps[3], buffer_gps[4],
                                              SubSeq(buffer_gps, 7, 6 + L)>>)
                /\ buffer_gps' = SubSeq(buffer_gps, 6 + L + 2 + 1, Len(buffer_gps)) ]_vars

\* C13 witness: a frame with an empty payload and a frame with a payload have
\* both been emitted, and bytes after the last one are still buffered.
C13_Witness ==
    /\ \E i \in 1..Len(frames) : frames[i][3] = <<>>
    /\ \E i \in 1..Len(frames) : frames[i][3] # <<>>
    /\ buffer_gps # <<>>

(***************************************************************************)
(* Claims about the interpretation of frames                               *)
(***************************************************************************)
\* The frame parse_ubx_message is working on is neither NAV-PVT (1, 7) nor
\* NAV-RELPOSNED (1, 0x3C), and its call of broadcast_data (line 324) runs.
UnknownFrameInHand ==
    /\ ubx_message # <<>>
    /\ ~(ubx_message[3] = 1 /\ ubx_message[4] \in {7, 60})
    /\ bcRet = "loop"
    /\ ipc \in {"bc_acquire", "bc_apply", "bc_send"}

\* Two stored values are the same: both absent, or the same number or text
\* (a float and the string that prints it count as the same).
SameStored(a, b) ==
    /\ IsNone(a) <=> IsNone(b)
    /\ a.w = b.w
    /\ a.m = b.m
    /\ a.e = b.e
    /\ a.s = b.s

\* C14: unknown frames change nothing. While parse_ubx_message processes a
\* frame of an unknown (class, id), no step changes a field of data_buffer or
\* a raw original_* value.
C14_UnknownFrameChangesNothing ==
    [][ UnknownFrameInHand =>
            /\ \A f \in DOMAIN data_buffer : SameStored(data_buffer'[f], data_buffer[f])
            /\ original_heading' = original_heading
            /\ original_imu_heading' = original_imu_heading
            /\ original_imu_pitch' = original_imu_pitch
            /\ original_imu_roll' = original_imu_roll ]_vars

\* The payload of the frame in hand: ubx_message[6:-2]
PayloadInHand == SubSeq(ubx_message, 7, Len(ubx_message) - 2)

\* parse_ubx_navpvt / parse_ubx_navrelposned is about to run on a payload
\* shorter than the fields it reads (36 bytes, 40 bytes).
ShortPayloadInHand ==
    \/ ipc = "pvt_store" /\ Len(PayloadInHand) < 36
    \/ ipc = "rel_store" /\ Len(PayloadInHand) < 40

\* C15: short payloads are rejected as malformed. Interpreting a NAV-PVT
\* payload shorter than 36 bytes or a NAV-RELPOSNED payload shorter than 40
\* bytes writes no field of data_buffer and no original_heading.
C15_ShortPayloadWritesNothing ==
    [][ ShortPayloadInHand =>
            /\ data_buffer' = data_buffer
            /\ original_heading' = original_heading ]_vars

\* The label of bits 3-4 of the flags word: 00 None, 01 (8) Float, 10 (16)
\* Fixed, anything else Unknown.
QualityLabel(flags) ==
    LET bits == (flags \div 8) % 4
    IN  IF bits = 0 THEN "None"
        ELSE IF bits = 1 THEN "Float"
        ELSE IF bits = 2 THEN "Fixed"
        ELSE "Unknown"

\* C16: RTK flag decode. When a relative-position frame has been interpreted,
\* the stored RTK_Fix_Quality is the label of bits 3-4 of its flags word
\* (bytes 36-39 of the payload).
C16_RtkFlagDecode ==
    [][ ipc = "rel_store" =>
            data_buffer'["RTK_Fix_Quality"] =
                PyTxt(QualityLabel(FromBytesLE(SubSeq(PayloadInHand, 37, 40)))) ]_vars

(***************************************************************************)
(* Claims about the attitude sentences                                     *)
(***************************************************************************)
\* The sentence msg has no marker ch.
LacksMarker(msg, ch) == \A i \in 1..Len(msg) : msg[i] # ch

\* C17: an absent marker leaves the stored value untouched. When a sentence
\* is applied (parsed, then stored under the lock), the stored raw heading,
\* pitch or roll is unchanged if the sentence has no C, P or R, and the stored
\* temperature is unchanged if it has no T.
C17_AbsentMarkerKeepsValue ==
    [][ /\ (ipc = "top" /\ ipc' = "imu_acquire") =>
            /\ LacksMarker(raw_message_imu', "C") =>
                    original_imu_heading' = original_imu_heading
            /\ LacksMarker(raw_message_imu', "P") =>
                    original_imu_pitch' = original_imu_pitch
            /\ LacksMarker(raw_message_imu', "R") =>
                    original_imu_roll' = original_imu_roll
        /\ (ipc = "imu_store" /\ LacksMarker(raw_message_imu, "T")) =>
            SameStored(data_buffer'["IMU_Temperature"], data_buffer["IMU_Temperature"])
      ]_vars

\* The field of sentence msg between marker `from` and marker `to` (the end of
\* the sentence when `to` is ""), with the framing removed.
FieldText(msg, from, to) ==
    LET m == StripFraming(msg)
    IN  IF to = "" THEN [present |-> Contains(m, from),
                         text |-> Slice(m, Find(m, from, 0) + 1, Len(m))]
        ELSE Between(m, from, to)

\* The value after the marker is a number.
Numeric(fld) == fld.present /\ ParseFloat(fld.text).ok

\* C18: one bad field does not discard the sentence. When the IMU-only
\* server's decoder has run on a sentence, every field of the sentence whose
\* text is a number is stored: heading, pitch and roll in the original_imu_*
\* globals, the temperature in data_buffer.
C18_BadFieldKeepsOthers ==
    [][ (ipc = "top" /\ ipc' # "top") =>
            LET c == FieldText(raw_message_imu', "C", "P")
                p == FieldText(raw_message_imu', "P", "R")
                r == FieldText(raw_message_imu', "R", "T")
                t == FieldText(raw_message_imu', "T", "")
            IN  /\ Numeric(c) => original_imu_heading' = ParseFloat(c.text).v
                /\ Numeric(p) => original_imu_pitch' = ParseFloat(p.text).v
                /\ Numeric(r) => original_imu_roll' = ParseFloat(r.text).v
                /\ Numeric(t) => data_buffer'["IMU_Temperature"] = ParseFloat(t.text).v
      ]_vars

\* C19: a field's value runs to the next marker or to the end of the line.
\* When parse_message has run on a sentence in which C, P or R is followed by
\* a decimal number and the end of the sentence, with no later marker, that
\* number is the stored raw heading, pitch or roll.
C19_ValueRunsToEndOfLine ==
    [][ (ipc = "top" /\ ipc' = "imu_acquire") =>
            LET msg == StripFraming(raw_message_imu')
                c == FieldText(raw_message_imu', "C", "")
                p == FieldText(raw_message_imu', "P", "")
                r == FieldText(raw_message_imu', "R", "")
            IN  /\ (Numeric(c) /\ \A ch \in {"P", "R", "T"} : LacksMarker(msg, ch)) =>
                        original_imu_heading' = ParseFloat(c.text).v
                /\ (Numeric(p) /\ \A ch \in {"R", "T"} : LacksMarker(msg, ch)) =>
                        original_imu_pitch' = ParseFloat(p.text).v
                /\ (Numeric(r) /\ LacksMarker(msg, "T")) =>
                        original_imu_roll' = ParseFloat(r.text).v
      ]_vars

(***************************************************************************)
(* Claims about the correction pipeline                                    *)
(***************************************************************************)
\* C20: heading offset with wrap-around. Whenever a record is published while
\* a raw heading is stored, its Heading is (raw heading + heading_offset)
\* mod 360 formatted to one decimal place.
C20_HeadingOffsetWraps ==
    (ipc = "bc_send" /\ ~IsNone(original_heading)) =>
        /\ Has(json_data, "Heading")
        /\ json_data["Heading"] =
               Format(FMod360(FAdd(original_heading, config.heading_offset)), 1)

\* C21: roll and pitch sign negation. Whenever a record is published while a
\* raw roll (pitch) is stored, its IMU_Roll (IMU_Pitch) is the raw value,
\* negated when negate_roll (negate_pitch) is set, formatted to one decimal
\* place.
C21_RollPitchNegation ==
    ipc = "bc_send" =>
        /\ ~IsNone(original_imu_roll) =>
              /\ Has(json_data, "IMU_Roll")
              /\ json_data["IMU_Roll"] =
                     Format(IF config.negate_roll THEN FNeg(original_imu_roll)
                            ELSE original_imu_roll, 1)
        /\ ~IsNone(original_imu_pitch) =>
              /\ Has(json_data, "IMU_Pitch")
              /\ json_data["IMU_Pitch"] =
                     Format(IF config.negate_pitch THEN FNeg(original_imu_pitch)
                            ELSE original_imu_pitch, 1)

\* C22: yaw negation applies to the IMU heading. Whenever a record is
\* published with negate_yaw set while a raw IMU heading is stored, its
\* IMU_Heading is computed from the negated raw IMU heading.
C22_YawNegation ==
    (ipc = "bc_send" /\ config.negate_yaw /\ ~IsNone(original_imu_heading)) =>
        /\ Has(json_data, "IMU_Heading")
        /\ json_data["IMU_Heading"] =
               Format(FMod360(FAdd(FNeg(original_imu_heading), imu_heading_offset)), 1)

\* The value a field is published from: the original_* global for the four
\* corrected fields, the stored data_buffer entry for the others.
SourceValue(f) ==
    IF f = "Heading" THEN original_heading
    ELSE IF f = "IMU_Heading" THEN original_imu_heading
    ELSE IF f = "IMU_Pitch" THEN original_imu_pitch
    ELSE IF f = "IMU_Roll" THEN original_imu_roll
    ELSE data_buffer[f]

\* C23: absent-field omission. The record a publish serializes has a field's
\* key if and only if the field's source value is not None when the publish
\* starts, and no key of the record carries None.
C23_AbsentFieldOmission ==
    [][(ipc = "bc_apply" /\ ipc' = "bc_send") =>
          /\ \A f \in DataFields : Has(json_data', f) <=> ~IsNone(SourceValue(f))
          /\ \A f \in DOMAIN json_data' : ~IsNone(json_data'[f])]_vars

\* A record was published with the NAV-PVT fields only.
C23_Witness ==
    /\ ipc = "bc_send"
    /\ DOMAIN json_data = {"Timestamp", "Latitude", "Longitude", "Altitude"}

\* The value of a formatted field after the corrections and before any
\* formatting, and the number of decimals it is published with.
CorrectedValue(f) ==
    IF f = "Heading" THEN FMod360(FAdd(original_heading, config.heading_offset))
    ELSE IF f = "IMU_Heading" THEN FMod360(FAdd(original_imu_heading, imu_heading_offset))
    ELSE IF f = "IMU_Pitch" THEN Negated(config.negate_pitch, original_imu_pitch)
    ELSE IF f = "IMU_Roll" THEN Negated(config.negate_roll, original_imu_roll)
    ELSE data_buffer[f]

Precision(f) == IF f \in {"Latitude", "Longitude"} THEN 7 ELSE 1

\* C24: formatting happens exactly once. Every formatted field of the record
\* a publish serializes equals the field's corrected value rounded a single
\* time to the field's precision.
C24_SingleRounding ==
    [][(ipc = "bc_apply" /\ ipc' = "bc_send") =>
          \A f \in fields_to_round_seven :
              Has(json_data', f) =>
                  json_data'[f] = Format(CorrectedValue(f), Precision(f))]_vars

\* C25: formatting is idempotent across publishes. While a record is being
\* sent, publishing again from data_buffer as the publish left it, with the
\* same config, raw values and calibration offset, gives the same record.
C25_RepublishIdentical ==
    ipc = "bc_send" =>
        JsonOf(ApplyOffsetAndSign(data_buffer, config, original_heading,
                                  original_imu_pitch, original_imu_roll,
                                  original_imu_heading, imu_heading_offset)) = json_data

\* The publish of line 306 is sending a record with a position, a corrected
\* heading and a negated, formatted roll: data_buffer holds formatted strings.
C25_Witness ==
    /\ ipc = "bc_send"
    /\ bcRet = "top"
    /\ config.negate_roll
    /\ Has(json_data, "Latitude")
    /\ Has(json_data, "Heading")
    /\ Has(json_data, "IMU_Roll")
    /\ json_data["IMU_Roll"] = PyNumStr(-123, 1, 1)
    /\ data_buffer["IMU_Roll"].kind = "str"

(***************************************************************************)
(* Claims about the heading calibrator                                     *)
(***************************************************************************)
\* (gps - imu) mod 360, less 360 when above 180, rounded to seven decimals
RoundedDifference(gps, imu) ==
    LET d == FMod360(FSub(gps, imu))
    IN  PyRound(IF FGreater(d, PyFloat(180, 0)) THEN FSub(d, PyFloat(360, 0)) ELSE d, 7)

\* -0.1 <= v <= 0.1
AtMostTenth(v) == ~FGreater(v, PyFloat(1, 1)) /\ ~FGreater(PyFloat(-1, 1), v)

BothHeadings == ~IsNone(original_heading) /\ ~IsNone(original_imu_heading)

\* C26: calibrator hysteresis with replace policy. A tick with both headings
\* present leaves imu_heading_offset unchanged when the rounded normalised
\* difference is at most 0.1 in absolute value, and sets it to that
\* difference otherwise.
C26_HysteresisReplace ==
    [][(cpc = "tick" /\ cpc' = "sleep" /\ BothHeadings) =>
          imu_heading_offset' =
              IF AtMostTenth(RoundedDifference(original_heading, original_imu_heading))
              THEN imu_heading_offset
              ELSE RoundedDifference(original_heading, original_imu_heading)]_vars

\* A tick runs on a difference of 0.05 (headings 1.34 and 1.29) after an
\* earlier tick set the offset to 0.2.
C26_Witness ==
    /\ cpc = "tick"
    /\ original_heading = PyFloat(134, 2)
    /\ original_imu_heading = PyFloat(129, 2)
    /\ imu_heading_offset = PyFloat(2, 1)

\* C27: the calibrator skips a tick with a missing heading. A tick with the
\* raw GPS heading or the raw IMU heading absent leaves imu_heading_offset,
\* data_buffer and the raw values unchanged.
C27_TickSkipsMissingHeading ==
    [][(cpc = "tick" /\ cpc' = "sleep" /\ ~BothHeadings) =>
          /\ imu_heading_offset' = imu_heading_offset
          /\ data_buffer' = data_buffer
          /\ original_heading' = original_heading
          /\ original_imu_heading' = original_imu_heading
          /\ original_imu_pitch' = original_imu_pitch
          /\ original_imu_roll' = original_imu_roll]_vars

\* A tick runs with a GPS heading and no IMU heading.
C27_Witness ==
    /\ cpc = "tick"
    /\ ~IsNone(original_heading)
    /\ IsNone(original_imu_heading)

\* C28: the calibration offset stays normalised: imu_heading_offset lies in
\* the interval (-180, 180] in every reachable state.
C28_OffsetNormalised ==
    /\ FGreater(imu_heading_offset, PyFloat(-180, 0))
    /\ ~FGreater(imu_heading_offset, PyFloat(180, 0))

\* C28 as amended: imu_heading_offset lies in the closed interval
\* [-180, 180] in every reachable state (the rounding to seven decimals can
\* carry a difference just above -180 onto -180).
C28_OffsetWithinHalfTurn ==
    /\ ~FGreater(PyFloat(-180, 0), imu_heading_offset)
    /\ ~FGreater(imu_heading_offset, PyFloat(180, 0))

\* A tick stored the offset -180.0 (headings 181.0 and 0.99999996).
C28_Witness ==
    /\ cpc = "sleep"
    /\ original_heading = PyFloat(181, 0)
    /\ original_imu_heading = PyFloat(99999996, 8)
    /\ imu_heading_offset = PyFloat(-180, 0)

\* C29: only the calibrator writes the calibration offset: every step that
\* changes imu_heading_offset is the calibrator's tick.
C29_OnlyCalibratorWritesOffset ==
    [][imu_heading_offset' # imu_heading_offset => (cpc = "tick" /\ cpc' = "sleep")]_vars

\* A record is being sent to an admitted consumer, after a frame and a
\* sentence were stored, with the offset calibrated to a non-zero value.
C29_Witness ==
    /\ ipc = "bc_send"
    /\ clients # <<>>
    /\ BothHeadings
    /\ imu_heading_offset # PyFloat(0, 0)

(***************************************************************************)
(* Claims about the UDP servers                                            *)
(***************************************************************************)
\* C30: datagram registration handshake. A broadcast datagram is sent only to
\* an address that has sent a datagram with payload "connect", and no
\* address is in clients more than once.
C30_ConnectHandshake ==
    /\ \A a \in delivered : greeted[a] >= 1
    /\ \A i, j \in 1..Len(clients) : clients[i] = clients[j] => i = j

\* An address that sent "connect" twice, both datagrams received, is in
\* clients and was sent a broadcast datagram.
C30_Witness ==
    \E a \in Clients :
        /\ greeted[a] = MaxConnects
        /\ \A d \in datagrams : d.address # a
        /\ a \in Range(clients)
        /\ a \in delivered

(***************************************************************************)
(* Claims about the stored telemetry                                       *)
(***************************************************************************)
\* C31: publishing is a pure transform of the stored telemetry. A publish
\* leaves the value of every field of data_buffer as it was (a float and the
\* string that prints the same number count as the same value).
C31_PublishKeepsStored ==
    [][(ipc = "bc_apply" /\ ipc' = "bc_send") =>
          \A f \in DataFields : SameStored(data_buffer[f], data_buffer'[f])]_vars

PvtFields == {"Timestamp", "Latitude", "Longitude", "Altitude"}
RelFields == {"Antenna_Distance", "RTK_Fix_Quality"}

\* Storing a position payload and a relative-position payload of the feed
\* gives the same data_buffer in either order.
FrameStoresCommute ==
    \A k, l \in Tags :
        NavRelUpdate(NavPvtUpdate(data_buffer, PvtPayload(k)), RelPayload(l)) =
            NavPvtUpdate(NavRelUpdate(data_buffer, RelPayload(l)), PvtPayload(k))

\* C32: position and relative-position updates commute. The store of a
\* position frame sets the four position fields to the frame's values and
\* leaves the relative-position fields and the raw heading alone, the store
\* of a relative-position frame does the converse, and no other step changes
\* the value of any of these fields, so each holds the value from the most
\* recent frame of its type.
C32_LastFrameWins ==
    [][/\ (ipc = "pvt_store" /\ ipc' # ipc) =>
              /\ \A f \in PvtFields :
                     data_buffer'[f] = NavPvtUpdate(data_buffer, FrameOf(ubx_message)[3])[f]
              /\ \A f \in RelFields : data_buffer'[f] = data_buffer[f]
              /\ original_heading' = original_heading
       /\ (ipc = "rel_store" /\ ipc' # ipc) =>
              /\ \A f \in RelFields :
                     data_buffer'[f] = NavRelUpdate(data_buffer, FrameOf(ubx_message)[3])[f]
              /\ original_heading' = NavRelHeading(FrameOf(ubx_message)[3])
              /\ \A f \in PvtFields : data_buffer'[f] = data_buffer[f]
       /\ ~(ipc \in {"pvt_store", "rel_store"} /\ ipc' # ipc) =>
              /\ \A f \in PvtFields \cup RelFields :
                     SameStored(data_buffer[f], data_buffer'[f])
              /\ original_heading' = original_heading]_vars

C37_BufferBetweenReads ==
    ipc = "gps_read" =>
        \/ Len(buffer_gps) < 6
        \/ /\ SyncAtHead(buffer_gps)
           /\ Len(buffer_gps) < 6 + DeclaredLength(buffer_gps) + 2

\* The loop extracted a frame and went back to reading with the first six
\* bytes or more of the next frame in the buffer.
C37_Witness ==
    /\ ipc = "gps_read"
    /\ frames # <<>>
    /\ Len(buffer_gps) >= 6
    /\ SyncAtHead(buffer_gps)

(***************************************************************************)
(* Claims about the published headings                                     *)
(***************************************************************************)
\* a and b are at most 0.1 degree apart on the circle
WithinTenthOnCircle(a, b) ==
    LET d == FMod360(FSub(a, b))
    IN  AtMostTenth(d) \/ AtMostTenth(FSub(d, PyFloat(360, 0)))

\* C38: calibration reconciles the two headings. After a calibrator tick on
\* which both raw headings are present, (raw IMU heading + imu_heading_offset)
\* mod 360 is within 0.1 degree of the raw GPS heading mod 360.
C38_TickReconciles ==
    [][(cpc = "tick" /\ cpc' = "sleep" /\ BothHeadings) =>
          WithinTenthOnCircle(FMod360(FAdd(original_imu_heading, imu_heading_offset')),
                              FMod360(original_heading))]_vars

\* 0 <= v < 360 for a published number
InFullTurn(v) == v.w >= 0 /\ v.w < 360

\* C39: published headings stay in range. Every Heading and IMU_Heading of a
\* record being published is at least 0 and less than 360.
C39_HeadingsInRange ==
    ipc = "bc_send" =>
        \A f \in {"Heading", "IMU_Heading"} :
            Has(json_data, f) => InFullTurn(json_data[f])

\* C40: datagram registration survives bad input. No step ends the
\* registration loop, and clients changes only by appending the address of a
\* waiting datagram whose payload is "connect".
C40_RegistrationSurvives ==
    [][/\ upc = "recv" => upc' = "recv"
       /\ clients' # clients =>
              \E d \in datagrams :
                  /\ IsConnect(d.message)
                  /\ clients' = Append(clients, d.address)]_vars

(***************************************************************************)
(* Claims about the outbound clients                                       *)
(***************************************************************************)
\* C33: reconnect after a send failure in GPS_IMU_TCP_Client.py. A sendall
\* that does not deliver the record leaves client_socket reset to None and
\* the ingest loop running, and a call of send_data_to_server made while
\* client_socket is None attempts a connection.
C33_ReconnectAfterFailedSend ==
    [][/\ (kpc = "sendall" /\ sent' = sent) =>
              (client_socket' = "none" /\ kpc' = "loop")
       /\ (kpc = "call" /\ client_socket = "none") => kpc' = "connect"]_vars

\* a relative-position frame has been handed to parse_ubx_message
RelFrameSeen == \E i \in 1..Len(frames) : frames[i][1] = 1 /\ frames[i][2] = 60

\* C34: in GPS_UDP_Client.py a publish made before any relative-position
\* frame was received emits a record without a Heading key, raises no error
\* and returns to the ingest loop.
C34_PublishBeforeRelFrame ==
    [][(kpc = "publish" /\ ~RelFrameSeen) =>
          (kpc' = "loop" /\ ~Has(json_data', "Heading"))]_vars

\* bytes other than the sync marker head a buffer long enough to be examined
JunkAtHead == Len(buffer_gps) >= 6 /\ ~StartsWith(buffer_gps, UBX_HEADER)

\* C35: forward progress of the decoder of GPS_IMU_UDP_Client.py. Bytes
\* other than the sync marker at the head of the GPS buffer are eventually
\* discarded.
C35_JunkEventuallyDiscarded == JunkAtHead ~> ~JunkAtHead

====
